---- MODULE Spec2Model ----
(***************************************************************************)
(* A model of astro-image-exif-loader: the preset resolver                 *)
(* (determineTagsToExtract), the value serializer (toSerializable), the    *)
(* record builder (buildImageData) and the loader built from them          *)
(* (createExifLoader / load / processImage / the watcher handlers).        *)
(*                                                                         *)
(* JavaScript values are records tagged by "kind"; every field name has    *)
(* one type, so values of different kinds compare unequal.                 *)
(***************************************************************************)
EXTENDS Integers, Sequences, FiniteSets, Bags, TLC

(***************************************************************************)
(* JavaScript values                                                       *)
(***************************************************************************)
Null == [kind |-> "null"]

Undefined == [kind |-> "undefined"]

Str(s) == [kind |-> "string", s |-> s]

\* A number is num/den in lowest terms; den = 0 stands for the non-finite
\* results of a division by zero (1/0 Infinity, -1/0 -Infinity, 0/0 NaN).
Num(n) == [kind |-> "number", num |-> n, den |-> 1]

Bool(b) == [kind |-> "boolean", b |-> b]

\* A native Date; valid = FALSE is the Invalid Date.
DateVal(ms) == [kind |-> "Date", valid |-> TRUE, ms |-> ms]

InvalidDate == [kind |-> "Date", valid |-> FALSE, ms |-> 0]

\* An ExifDateTime of the parser: an object whose toDate() gives a Date.
ExifDateTime(ms) == [kind |-> "ExifDateTime", ms |-> ms]

\* A function object (what a plain object inherits under "constructor").
FunctionObject == [kind |-> "function"]

\* An object with methods of its own (or, with "none", without the method
\* at all: an object made by Object.create(null) has none of them).
\*   toDate:   "none", "throws", "date" (a Date of instant ms), "invalidDate"
\*   valueOf:  "none", "self" (Object.prototype.valueOf), "throws", "number",
\*             "string"
\*   toString: "none", "throws", "string"
CustomObject(toDate, valueOf, toStr, ms) ==
    [kind |-> "custom", toDate |-> toDate, valueOf |-> valueOf,
     toString |-> toStr, ms |-> ms]

\* An array that holds itself: const a = []; a.push(a).
CyclicArray == [kind |-> "cyclicArray"]

\* Date.prototype.toISOString(): the ISO-8601 string of the instant ms.
\* Two instants have the same string exactly when they are the same
\* millisecond.
toISOString(ms) == [kind |-> "string", s |-> "ISO-8601", ms |-> ms]

\* The exception marker: what an operator yields when the code throws.
Thrown == [kind |-> "THROWN"]

IsNullish(v) == v.kind \in {"null", "undefined"}

(***************************************************************************)
(* Property lookup on a plain object literal: own properties first, then   *)
(* what every object inherits from Object.prototype.                       *)
(***************************************************************************)
ObjectPrototypeProps ==
    {"constructor", "toString", "valueOf", "hasOwnProperty",
     "isPrototypeOf", "propertyIsEnumerable", "toLocaleString"}

\* tags[tagName] on the parser's record (a plain object).
GetProp(obj, name) ==
    IF name \in DOMAIN obj THEN obj[name]
    ELSE IF name \in ObjectPrototypeProps THEN FunctionObject
    ELSE Undefined

(***************************************************************************)
(* utils: FILESYSTEM_LEAKY_TAGS and EXIF_PRESET_MAPPINGS                   *)
(***************************************************************************)
FILESYSTEM_LEAKY_TAGS ==
    <<"Directory", "FileName", "FileModifyDate", "FileAccessDate",
      "FileInodeChangeDate", "FilePermissions", "FileType",
      "FileTypeExtension", "MIMEType", "ExifToolVersion", "SourceFile">>

EXIF_PRESET_MAPPINGS ==
    [basic |-> <<"FileSize", "ImageWidth", "ImageHeight">>,
     camera |-> <<"Make", "Model", "LensModel", "Lens", "LensID", "LensInfo",
                  "LensSerialNumber", "SerialNumber", "BodySerialNumber",
                  "CameraSerialNumber", "LensMake", "MaxAperture",
                  "MinFocalLength", "MaxFocalLength">>,
     exposure |-> <<"ISO", "FNumber", "ExposureTime", "ShutterSpeed",
                    "FocalLength", "FocalLengthIn35mmFormat", "Flash",
                    "WhiteBalance", "ExposureMode", "MeteringMode">>,
     datetime |-> <<"DateTimeOriginal", "CreateDate", "DateTime">>,
     location |-> <<"GPSLatitude", "GPSLongitude", "GPSAltitude", "Country",
                    "State", "City", "Location", "Sub-location",
                    "GPSAreaInformation", "Country-PrimaryLocationCode",
                    "Province-State">>,
     technical |-> <<"ColorSpace", "Orientation", "Software", "SceneType",
                     "SceneCaptureType">>,
     metadata |-> <<"Artist", "Copyright", "ImageDescription", "Keywords",
                    "Title", "Subject">>]

Range(seq) == {seq[i] : i \in 1..Len(seq)}

(***************************************************************************)
(* A JavaScript Set: its members in insertion order, without duplicates.   *)
(***************************************************************************)
\* for (const x of xs) set.add(x): the values of xs the Set does not hold
\* are appended in the order of their first occurrence.
SetAddAll(set, xs) ==
    LET fresh == {i \in 1..Len(xs) :
                     /\ xs[i] \notin Range(set)
                     /\ \A j \in 1..(i - 1) : xs[j] # xs[i]}
        nth(k) == CHOOSE i \in fresh : Cardinality({j \in fresh : j <= i}) = k
    IN  set \o [k \in 1..Cardinality(fresh) |-> xs[nth(k)]]

\* new Set(xs)
NewSet(xs) == SetAddAll(<<>>, xs)

SetHas(set, x) == x \in Range(set)

SetSize(set) == Len(set)

(***************************************************************************)
(* loader: determineTagsToExtract                                          *)
(***************************************************************************)
\* EXIF_PRESET_MAPPINGS[preset]: the table is an object literal, so a name
\* it does not define falls through to Object.prototype.
PresetLookup(preset) ==
    IF preset \in DOMAIN EXIF_PRESET_MAPPINGS
    THEN [kind |-> "array", elems |-> EXIF_PRESET_MAPPINGS[preset]]
    ELSE IF preset \in ObjectPrototypeProps THEN FunctionObject
    ELSE Undefined

\* if (x): of the values a lookup can give, only undefined is falsy.
Truthy(v) == ~IsNullish(v)

RECURSIVE PresetLoop(_, _, _)
\* The loop over presets from index i on; for...of over a value that is not
\* iterable (a function) throws a TypeError.
PresetLoop(presets, i, tagsSet) ==
    IF i > Len(presets) THEN [threw |-> FALSE, tagsSet |-> tagsSet]
    ELSE LET m == PresetLookup(presets[i]) IN
         IF ~Truthy(m) THEN PresetLoop(presets, i + 1, tagsSet)
         ELSE IF m.kind # "array" THEN [threw |-> TRUE, tagsSet |-> <<>>]
         ELSE PresetLoop(presets, i + 1, SetAddAll(tagsSet, m.elems))

\* A resolver that forgets the explicit tags.
determineTagsToExtract_PresetsOnly(presets, tags) ==
    PresetLoop(presets, 1, <<>>)

\* The result is [threw, tagsSet]: threw = TRUE when the call raises.
determineTagsToExtract(presets, tags) ==
    LET afterPresets == PresetLoop(presets, 1, <<>>) IN
    IF afterPresets.threw THEN afterPresets
    ELSE [threw |-> FALSE,
          tagsSet |-> SetAddAll(afterPresets.tagsSet, tags)]

(***************************************************************************)
(* utils: toSerializable                                                   *)
(***************************************************************************)
\* A plain object with own data properties.
Obj(props) == [kind |-> "object", props |-> props]

Arr(elems) == [kind |-> "array", elems |-> elems]

Abs(n) == IF n < 0 THEN -n ELSE n

Sign(n) == IF n < 0 THEN -1 ELSE IF n > 0 THEN 1 ELSE 0

RECURSIVE GCD(_, _)
GCD(a, b) == IF b = 0 THEN a ELSE GCD(b, a % b)

\* A division with its operands exchanged.
Divide_Swapped(a, b) ==
    LET n == b.num * a.den
        d == b.den * a.num
        g == GCD(Abs(n), Abs(d))
    IN  IF d = 0 THEN [kind |-> "number", num |-> Sign(n), den |-> 0]
        ELSE [kind |-> "number", num |-> (Sign(d) * n) \div g,
              den |-> Abs(d) \div g]

\* a / b on numbers (rounding of the quotient is not modelled); a zero
\* divisor gives Infinity, -Infinity or NaN.
Divide(a, b) ==
    LET n == a.num * b.den
        d == a.den * b.num
        g == GCD(Abs(n), Abs(d))
    IN  IF d = 0 THEN [kind |-> "number", num |-> Sign(n), den |-> 0]
        ELSE [kind |-> "number", num |-> (Sign(d) * n) \div g,
              den |-> Abs(d) \div g]

\* typeof value.toDate === "function": the parser's ExifDateTime and the
\* objects with a toDate of their own; a plain object of data properties has
\* no toDate.
HasToDate(value) ==
    \/ value.kind = "ExifDateTime"
    \/ value.kind = "custom" /\ value.toDate # "none"

\* typeof value.valueOf === "function"
HasValueOf(value) == value.kind = "custom" => value.valueOf # "none"

\* value.valueOf() of an object: Object.prototype.valueOf (and Array's and
\* Function's) return the object itself; a Date's returns its time value.
ValueOf(value) ==
    IF value.kind = "Date"
    THEN IF value.valid THEN Num(value.ms)
         ELSE [kind |-> "number", num |-> 0, den |-> 0]
    ELSE IF value.kind = "custom"
    THEN CASE value.valueOf = "number" -> Num(value.ms)
           [] value.valueOf = "string" -> Str("custom.valueOf")
           [] value.valueOf = "throws" -> Thrown
           [] OTHER -> value
    ELSE value

\* String(value) of an object: its toString(); without a toString, its
\* valueOf() when that gives a primitive, else a TypeError.
StringOf(value) ==
    CASE value.kind = "custom" ->
           IF value.toString = "string" THEN Str("custom.toString")
           ELSE IF value.toString = "throws" THEN Thrown
           ELSE IF value.valueOf \in {"number", "string"}
           THEN Str("custom.valueOf")
           ELSE Thrown
      [] value.kind = "Date" ->
           IF value.valid THEN [kind |-> "string", s |-> "Date.toString",
                                ms |-> value.ms]
           ELSE Str("Invalid Date")
      [] value.kind = "function" -> Str("function () { [native code] }")
      [] value.kind = "ExifDateTime" -> [kind |-> "string",
                                         s |-> "ExifDateTime.toString",
                                         ms |-> value.ms]
      [] OTHER -> Str("[object Object]")

RECURSIVE toSerializable(_)
\* The result is a value, or Thrown when the call raises.
toSerializable(value) ==
    IF IsNullish(value) THEN Null
    ELSE IF value.kind \in {"string", "number", "boolean"} THEN value
    ELSE IF value.kind = "Date" \/ HasToDate(value) THEN
        IF value.kind = "Date"
        THEN IF value.valid THEN toISOString(value.ms)
             ELSE StringOf(value)      \* toISOString threw a RangeError
        ELSE IF value.kind = "custom" /\ value.toDate # "date"
        THEN StringOf(value)           \* toDate() or toISOString() threw
        ELSE toISOString(value.ms)     \* value.toDate().toISOString()
    ELSE IF value.kind = "cyclicArray" THEN
        Thrown       \* value.map(toSerializable) recurses until RangeError
    ELSE IF value.kind = "array" THEN
        LET mapped == [i \in 1..Len(value.elems) |->
                          toSerializable(value.elems[i])]
        IN  IF \E i \in 1..Len(mapped) : mapped[i] = Thrown THEN Thrown
            ELSE Arr(mapped)
    ELSE IF HasValueOf(value) /\ ValueOf(value) = Thrown THEN Thrown
    ELSE IF HasValueOf(value) /\ ValueOf(value).kind \in {"number", "string"}
    THEN ValueOf(value)
    ELSE IF /\ value.kind = "object"
            /\ GetProp(value.props, "num").kind = "number"
            /\ GetProp(value.props, "den").kind = "number"
         THEN Divide(value.props.num, value.props.den)
    ELSE StringOf(value)

(***************************************************************************)
(* utils: buildImageData                                                   *)
(***************************************************************************)
\* tagsToExtract: null (extract all) or a Set of tag names.
ALL == [isNull |-> TRUE, set |-> <<>>]

Explicit(set) == [isNull |-> FALSE, set |-> set]

\* data[key] = value
Assign(data, key, value) ==
    [k \in DOMAIN data \cup {key} |-> IF k = key THEN value ELSE data[k]]

\* Object.entries(tags) filtered by "tagValue !== null && tagValue !==
\* undefined": the own tags with a value.
NonNullEntries(tags) == {t \in DOMAIN tags : ~IsNullish(tags[t])}

\* An extract-all loop that does not consult excludeTags.
CopyAll_NoExclusion(data, tags, excludeTags) ==
    [k \in DOMAIN data \cup NonNullEntries(tags) |->
        IF k \in NonNullEntries(tags) THEN toSerializable(tags[k])
        ELSE data[k]]

\* for (const [tagName, tagValue] of Object.entries(tags)) of the
\* extract-all branch: every entry writes its own key.
CopyAll(data, tags, excludeTags) ==
    LET copied == {t \in NonNullEntries(tags) : ~SetHas(excludeTags, t)}
    IN  [k \in DOMAIN data \cup copied |->
            IF k \in copied THEN toSerializable(tags[k]) ELSE data[k]]

RECURSIVE CopySelected_NoExclusion(_, _, _, _, _)
\* A selection loop that does not consult excludeTags.
CopySelected_NoExclusion(data, tags, tagsToExtract, excludeTags, i) ==
    IF i > Len(tagsToExtract) THEN data
    ELSE LET tagName == tagsToExtract[i]
             tagValue == GetProp(tags, tagName)
         IN  IF ~IsNullish(tagValue)
             THEN CopySelected_NoExclusion(
                      Assign(data, tagName, toSerializable(tagValue)),
                      tags, tagsToExtract, excludeTags, i + 1)
             ELSE CopySelected_NoExclusion(data, tags, tagsToExtract,
                                           excludeTags, i + 1)

RECURSIVE CopySelected(_, _, _, _, _)
\* for (const tagName of tagsToExtract), from the i-th member on.
CopySelected(data, tags, tagsToExtract, excludeTags, i) ==
    IF i > Len(tagsToExtract) THEN data
    ELSE LET tagName == tagsToExtract[i]
             tagValue == GetProp(tags, tagName)
         IN  IF ~SetHas(excludeTags, tagName) /\ ~IsNullish(tagValue)
             THEN CopySelected(Assign(data, tagName, toSerializable(tagValue)),
                               tags, tagsToExtract, excludeTags, i + 1)
             ELSE CopySelected(data, tags, tagsToExtract, excludeTags, i + 1)

\* A selection part whose explicit branch leaves FileSize as the loop copied
\* it from the parser's record.
SelectTags_ExplicitKeepsParserFileSize(data, tags, fileSize, tagsToExtract, excludeTags) ==
    IF tagsToExtract.isNull
    THEN Assign(CopyAll(data, tags, excludeTags), "FileSize", Num(fileSize))
    ELSE IF SetSize(tagsToExtract.set) > 0
    THEN CopySelected(data, tags, tagsToExtract.set, excludeTags, 1)
    ELSE data

\* A selection part whose extract-all branch sets FileSize before the copy,
\* so that the parser's FileSize replaces the stat size.
SelectTags_ParserFileSizeWins(data, tags, fileSize, tagsToExtract, excludeTags) ==
    IF tagsToExtract.isNull
    THEN CopyAll(Assign(data, "FileSize", Num(fileSize)), tags, excludeTags)
    ELSE IF SetSize(tagsToExtract.set) > 0
    THEN LET copied == CopySelected(data, tags, tagsToExtract.set,
                                    excludeTags, 1)
         IN  IF /\ SetHas(tagsToExtract.set, "FileSize")
                /\ ~SetHas(excludeTags, "FileSize")
             THEN Assign(copied, "FileSize", Num(fileSize))
             ELSE copied
    ELSE data

\* The selection part of buildImageData (the if / else if on tagsToExtract).
SelectTags(data, tags, fileSize, tagsToExtract, excludeTags) ==
    IF tagsToExtract.isNull
    THEN Assign(CopyAll(data, tags, excludeTags), "FileSize", Num(fileSize))
    ELSE IF SetSize(tagsToExtract.set) > 0
    THEN LET copied == CopySelected(data, tags, tagsToExtract.set,
                                    excludeTags, 1)
         IN  IF /\ SetHas(tagsToExtract.set, "FileSize")
                /\ ~SetHas(excludeTags, "FileSize")
             THEN Assign(copied, "FileSize", Num(fileSize))
             ELSE copied
    ELSE data

\* A raw copy that forgets the null test.
RawExif_KeepsNulls(tags) ==
    Obj([t \in DOMAIN tags |-> toSerializable(tags[t])])

\* data.rawExif = {}; then one entry per own tag with a value.
\* (RawExif_KeepsNulls above drops the test of the value.)
RawExif(tags) ==
    Obj([t \in NonNullEntries(tags) |-> toSerializable(tags[t])])

\* The values the run passes to toSerializable.
SerializedValues(tags, tagsToExtract, excludeTags, includeRawExif) ==
    LET top == IF tagsToExtract.isNull
               THEN {tags[t] : t \in {u \in NonNullEntries(tags) :
                                         ~SetHas(excludeTags, u)}}
               ELSE {GetProp(tags, t) :
                        t \in {u \in Range(tagsToExtract.set) :
                                  /\ ~SetHas(excludeTags, u)
                                  /\ ~IsNullish(GetProp(tags, u))}}
        raw == IF includeRawExif
               THEN {tags[t] : t \in NonNullEntries(tags)} ELSE {}
    IN  top \cup raw

\* The result is [threw, data]: threw = TRUE when a toSerializable call of
\* the run raises (no data is returned then).
buildImageData(tags, fileName, mtime, fileSize, tagsToExtract, excludeTags, includeRawExif) ==
    LET seeded == [k \in {"fileName", "mtime"} |->
                      IF k = "fileName" THEN fileName ELSE mtime]
        selected == SelectTags(seeded, tags, fileSize, tagsToExtract,
                               excludeTags)
        data == IF includeRawExif
                THEN Assign(selected, "rawExif", RawExif(tags))
                ELSE selected
        threw == \E v \in SerializedValues(tags, tagsToExtract, excludeTags,
                                           includeRawExif) :
                     toSerializable(v) = Thrown
    IN  [threw |-> threw, data |-> data]

(***************************************************************************)
(* State                                                                   *)
(***************************************************************************)
VARIABLES
    resolveCall,   \* a call of determineTagsToExtract: its arguments and result
    buildCall,     \* a call of buildImageData: its arguments and result
    serializeCall, \* a call of toSerializable: its argument and result
    importCall,    \* a call of imageImporter: its argument and result
    variant,       \* which createExifLoader of loader.ts runs: ids "relative" or "stripped"
    options,       \* the ExifLoaderOptions given to createExifLoader
    loader,        \* what createExifLoader computed: tagsToExtract, excludeTagsSet
    fs,            \* the image files on disk: path -> file
    store,         \* the host's record store: id -> entry
    load,          \* the run of load(): phase, discovered files, file in progress
    watching,      \* the watcher handlers are registered
    events,        \* watcher events not yet delivered, oldest first
    reactions,     \* the bag of processImage runs started by add/change events
    decision,      \* what the change check of the step just taken saw and decided
    logged,        \* the logger calls of the step just taken, in order
    delivered,     \* the watcher event the step just taken gave to its handler
    loads          \* number of load() runs started

pureVars == <<resolveCall, buildCall, serializeCall, importCall>>

loaderVars ==
    <<variant, options, loader, fs, store, load, watching, events, reactions, decision,
      logged, delivered, loads>>

vars == <<resolveCall, buildCall, serializeCall, importCall, variant, options,
          loader, fs, store, load, watching, events, reactions, decision, logged,
          delivered, loads>>

NotCalled == [called |-> FALSE]

(***************************************************************************)
(* Bounds of the checked instances                                         *)
(***************************************************************************)
\* Longest presets list and longest tags list given to the resolver.
MaxPresets == 2

MaxTags == 2

\* Largest number of members of an explicit selection.
MaxSelected == 2

\* Largest file size (bytes) stat reports.
MaxFileSize == 1

\* Latest modification time (ms) of a file; a write moves it forward.
MaxMtime == 2

\* Most watcher events waiting for delivery.
MaxEvents == 1

\* Most processImage runs started by events and not yet finished.
MaxReactions == 2

\* Most runs of load() (the store outlives a run).
MaxLoads == 2

\* Longest array given to the serializer.
MaxElems == 2

\* Largest magnitude of the num and den of a rational given to the serializer.
MaxRational == 2

\* Longest array of entries given to the importer.
MaxEntries == 2

SeqsUpTo(S, n) == UNION {[1..k -> S] : k \in 0..n}

IsInjective(seq) ==
    \A i, j \in 1..Len(seq) : seq[i] = seq[j] => i = j

(***************************************************************************)
(* SpecResolve: determineTagsToExtract on bounded arguments                *)
(***************************************************************************)
\* Preset identifiers given by callers: the seven defined ones, a name the
\* table does not have, and names every object inherits.
PresetIds ==
    DOMAIN EXIF_PRESET_MAPPINGS \cup {"portrait", "constructor", "toString"}

\* Explicit tag names given by callers ("FileSize" is also in preset basic).
ExplicitTagIds == {"FileSize", "GPSAltitude", "Directory"}

ResolveIdle == resolveCall = NotCalled

BuildIdle == buildCall = NotCalled

SerializeIdle == serializeCall = NotCalled

ImportIdle == importCall = NotCalled

\* No loader exists in the instances that only call a pure function.
NoLoader ==
    /\ variant = "none"
    /\ options = NotCalled
    /\ loader = NotCalled
    /\ fs = NotCalled
    /\ store = NotCalled
    /\ load = NotCalled
    /\ watching = FALSE
    /\ events = <<>>
    /\ reactions = EmptyBag
    /\ decision = NotCalled
    /\ logged = <<>>
    /\ delivered = NotCalled
    /\ loads = 0

InitResolve ==
    /\ \E presets \in SeqsUpTo(PresetIds, MaxPresets),
          tags \in SeqsUpTo(ExplicitTagIds, MaxTags) :
          resolveCall = [called |-> FALSE, presets |-> presets, tags |-> tags]
    /\ BuildIdle
    /\ SerializeIdle
    /\ ImportIdle
    /\ NoLoader

CallDetermineTagsToExtract ==
    /\ ~resolveCall.called
    /\ resolveCall' =
          [called |-> TRUE,
           presets |-> resolveCall.presets,
           tags |-> resolveCall.tags,
           result |-> determineTagsToExtract(resolveCall.presets,
                                             resolveCall.tags)]
    /\ UNCHANGED <<buildCall, serializeCall, importCall, loaderVars>>

NextResolve == CallDetermineTagsToExtract

SpecResolve == InitResolve /\ [][NextResolve]_vars

(***************************************************************************)
(* SpecBuild: buildImageData on bounded arguments                          *)
(***************************************************************************)
\* What the parser can report under each tag name: nothing (the tag is not
\* in the record), null, undefined, or a value.  "mtime" is a tag name equal
\* to one of the record's own field names.
Absent == [kind |-> "absent"]

RawChoices ==
    [Make |-> {Absent, Null, Str("Canon")},
     FileSize |-> {Absent, Str("2.3 MB")},
     Directory |-> {Absent, Undefined, Str("/tmp")},
     mtime |-> {Absent, ExifDateTime(2)}]

\* The records of the parser: one choice per tag name, absent ones left out.
RawRecords ==
    {[t \in {u \in DOMAIN c : c[u] # Absent} |-> c[t]] :
        c \in {f \in [DOMAIN RawChoices -> UNION {RawChoices[t] :
                                            t \in DOMAIN RawChoices}] :
                 \A t \in DOMAIN RawChoices : f[t] \in RawChoices[t]}}

\* Names a selection can hold.
SelectableTags == {"Make", "FileSize", "Directory", "mtime", "constructor"}

\* A Set of tag names: any insertion order, no duplicates.
Selections ==
    {ALL} \cup {Explicit(q) : q \in {r \in SeqsUpTo(SelectableTags,
                                                   MaxSelected) :
                                        IsInjective(r)}}

\* Exclusion Sets.
Exclusions ==
    {<<>>, <<"Make">>, <<"FileSize">>, <<"Directory">>, <<"mtime">>,
     <<"Directory", "Make">>, <<"Directory", "FileSize">>,
     <<"Directory", "FileSize", "Make", "mtime">>}

\* The fileName and mtime arguments.
ArgFileName == Str("a.jpg")

ArgMtime == toISOString(1)

InitBuild ==
    /\ \E tags \in RawRecords, fileSize \in 0..MaxFileSize,
          tagsToExtract \in Selections, excludeTags \in Exclusions,
          includeRawExif \in BOOLEAN :
          buildCall = [called |-> FALSE, tags |-> tags, fileSize |-> fileSize,
                       tagsToExtract |-> tagsToExtract,
                       excludeTags |-> excludeTags,
                       includeRawExif |-> includeRawExif]
    /\ ResolveIdle
    /\ SerializeIdle
    /\ ImportIdle
    /\ NoLoader

CallBuildImageData ==
    /\ ~buildCall.called
    /\ buildCall' =
          [called |-> TRUE, tags |-> buildCall.tags,
           fileSize |-> buildCall.fileSize,
           tagsToExtract |-> buildCall.tagsToExtract,
           excludeTags |-> buildCall.excludeTags,
           includeRawExif |-> buildCall.includeRawExif,
           result |-> buildImageData(buildCall.tags, ArgFileName, ArgMtime,
                                     buildCall.fileSize,
                                     buildCall.tagsToExtract,
                                     buildCall.excludeTags,
                                     buildCall.includeRawExif)]
    /\ UNCHANGED <<resolveCall, serializeCall, importCall, loaderVars>>

NextBuild == CallBuildImageData

SpecBuild == InitBuild /\ [][NextBuild]_vars

(***************************************************************************)
(* SpecSerialize: toSerializable on bounded arguments                      *)
(***************************************************************************)
\* Values that are not containers.
SerializeScalars ==
    {Null, Undefined, Str("a"), Num(0), Num(MaxRational), Bool(TRUE),
     Bool(FALSE), DateVal(1), InvalidDate, ExifDateTime(2), FunctionObject}

\* Plain objects { num, den } with numeric fields.
Rationals ==
    {Obj([num |-> Num(n), den |-> Num(d)]) :
        n \in -MaxRational..MaxRational, d \in -MaxRational..MaxRational}

\* Other plain objects: the fields named numerator and denominator, a num
\* that is not a number, a den that is missing, no field at all.
OtherObjects ==
    {Obj([numerator |-> Num(1), denominator |-> Num(2)]),
     Obj([num |-> Str("1"), den |-> Num(2)]),
     Obj([num |-> Num(1)]),
     Obj(<<>>)}

\* Objects with methods of their own, in every combination.
CustomObjects ==
    {CustomObject(toDate, valueOf, toStr, 3) :
        toDate \in {"none", "throws", "date", "invalidDate"},
        valueOf \in {"none", "self", "throws", "number", "string"},
        toStr \in {"none", "throws", "string"}}

\* What the arrays of the instance hold.
ArrayElements ==
    {Null, Str("a"), Num(1), Bool(TRUE), ExifDateTime(2), Arr(<<Num(1)>>),
     Obj([num |-> Num(1), den |-> Num(2)]),
     CustomObject("none", "throws", "string", 3)}

Arrays == {Arr(elems) : elems \in SeqsUpTo(ArrayElements, MaxElems)}

SerializeInputs ==
    SerializeScalars \cup Rationals \cup OtherObjects \cup CustomObjects
        \cup Arrays \cup {CyclicArray}

InitSerialize ==
    /\ \E value \in SerializeInputs :
          serializeCall = [called |-> FALSE, value |-> value]
    /\ ResolveIdle
    /\ BuildIdle
    /\ ImportIdle
    /\ NoLoader

CallToSerializable ==
    /\ ~serializeCall.called
    /\ serializeCall' = [called |-> TRUE, value |-> serializeCall.value,
                         result |-> toSerializable(serializeCall.value)]
    /\ UNCHANGED <<resolveCall, buildCall, importCall, loaderVars>>

NextSerialize == CallToSerializable

SpecSerialize == InitSerialize /\ [][NextSerialize]_vars

(***************************************************************************)
(* loader: createExifLoader                                                *)
(***************************************************************************)
\* A loader whose exclusion Set holds the caller's excludeTags only.
createExifLoader_UserExclusionsOnly(opts) ==
    LET resolved == IF opts.extractAll
                    THEN [threw |-> FALSE, tagsSet |-> <<>>]
                    ELSE determineTagsToExtract(opts.presets, opts.tags)
    IN  [threw |-> resolved.threw,
         tagsToExtract |-> IF opts.extractAll THEN ALL
                           ELSE Explicit(resolved.tagsSet),
         excludeTagsSet |-> NewSet(opts.excludeTags),
         includeRawExif |-> opts.includeRawExif]

\* The closure of createExifLoader: [threw, tagsToExtract, excludeTagsSet,
\* includeRawExif]; threw = TRUE when determineTagsToExtract raised.
createExifLoader(opts) ==
    LET resolved == IF opts.extractAll
                    THEN [threw |-> FALSE, tagsSet |-> <<>>]
                    ELSE determineTagsToExtract(opts.presets, opts.tags)
    IN  [threw |-> resolved.threw,
         tagsToExtract |-> IF opts.extractAll THEN ALL
                           ELSE Explicit(resolved.tagsSet),
         excludeTagsSet |-> NewSet(FILESYSTEM_LEAKY_TAGS \o opts.excludeTags),
         includeRawExif |-> opts.includeRawExif]

(***************************************************************************)
(* Paths: sequences of segments below the project root (config.root).      *)
(***************************************************************************)
\* path.resolve(rootPath, "src")
SrcRoot == <<"src">>

\* imagesDir.base, resolved against the project root.
BasePath == <<"src", "content", "images">>

\* path.basename
Basename(path) == path[Len(path)]

RECURSIVE Relative(_, _)
\* path.relative(from, to)
Relative(from, to) ==
    IF from # <<>> /\ to # <<>> /\ Head(from) = Head(to)
    THEN Relative(Tail(from), Tail(to))
    ELSE [i \in 1..Len(from) |-> ".."] \o to

\* absChanged === absBase || absChanged.startsWith(absBase + "/")
IsUnder(path, dir) ==
    /\ Len(path) >= Len(dir)
    /\ SubSeq(path, 1, Len(dir)) = dir

\* The extension of the file names of the instance.
Extension(name) ==
    CASE name = "photo.jpg" -> "jpg"
      [] name = "photo.png" -> "png"
      [] name = "notes.txt" -> "txt"
      [] OTHER -> ""

\* The file name without its extension.
Stem(name) == IF Extension(name) \in {"jpg", "png"} THEN "photo" ELSE name

\* rel.replace(extname(rel), "")
StripExtension(rel) == [rel EXCEPT ![Len(rel)] = Stem(rel[Len(rel)])]

\* The extensions imagesDir.pattern lets through: "**/*.jpg", and
\* "**/*.{jpg,png}" in the instance with stripped ids.
PatternExtensions == IF variant = "stripped" THEN {"jpg", "png"} ELSE {"jpg"}

\* picomatch(patterns)(rel)
isMatch(rel) == rel # <<>> /\ Extension(Basename(rel)) \in PatternExtensions

\* A filter that tests the pattern only.
matches_PatternOnly(changed) == isMatch(Relative(BasePath, changed))

\* The watcher's filter: below the base directory and matching the pattern.
matches(changed) ==
    IF ~IsUnder(changed, BasePath) THEN FALSE
    ELSE isMatch(Relative(BasePath, changed))

\* The image files of the instance, in the order tinyglob reports them: two
\* files with the same name in different directories; with stripped ids, two
\* files of one directory whose names differ in the extension only.
ImagePaths ==
    IF variant = "stripped"
    THEN <<BasePath \o <<"photo.jpg">>, BasePath \o <<"photo.png">>>>
    ELSE <<BasePath \o <<"photo.jpg">>, BasePath \o <<"sub", "photo.jpg">>>>

\* Paths the watcher also reports: one in the base directory that the
\* pattern does not match, one outside the base directory.
OtherPaths == {BasePath \o <<"notes.txt">>, <<"src", "pages", "photo.jpg">>}

(***************************************************************************)
(* importer: imageImporter                                                 *)
(***************************************************************************)
\* A path string: absolute or relative, as its segments ("" has none).
PathStr(absolute, segs) ==
    [kind |-> "path", absolute |-> absolute, segs |-> segs]

\* process.cwd(): the project root, as an absolute path.
Cwd == <<"proj">>

RECURSIVE Normalize(_, _)
\* The normalisation of path.resolve: "." is dropped, ".." removes the
\* segment before it.
Normalize(segs, acc) ==
    IF segs = <<>> THEN acc
    ELSE IF Head(segs) = "." THEN Normalize(Tail(segs), acc)
    ELSE IF Head(segs) = ".."
    THEN Normalize(Tail(segs),
                   IF acc = <<>> THEN acc ELSE SubSeq(acc, 1, Len(acc) - 1))
    ELSE Normalize(Tail(segs), Append(acc, Head(segs)))

\* path.resolve(rootPath, filePath)
PathResolve(rootPath, filePath) ==
    IF filePath.absolute THEN Normalize(filePath.segs, <<>>)
    ELSE Normalize(rootPath \o filePath.segs, <<>>)

\* if (!entry.filePath): undefined or the empty string.
NoFilePath(entry) ==
    \/ entry.filePath = Undefined
    \/ entry.filePath.segs = <<>> /\ ~entry.filePath.absolute

\* insideSrc = fullPath.startsWith(srcRoot + "/") || fullPath === srcRoot
InsideSrc(filePath) ==
    IsUnder(PathResolve(Cwd, filePath),
            PathResolve(Cwd, PathStr(FALSE, <<"src">>)))

\* The callback of entries.filter: true for an entry that cannot be imported.
IsOutsideSrc(entry) ==
    IF NoFilePath(entry) THEN TRUE ELSE ~InsideSrc(entry.filePath)

\* import.meta.glob("/src/**/*", { eager: false }): the modules under /src
\* and what importing each gives: an image module (its default export is
\* the image's metadata), a module without default export, a failing import.
GlobModules ==
    (<<"src", "content", "images", "photo.jpg">> :> "image")
        @@ (<<"src", "content", "images", "broken.jpg">> :> "fails")
        @@ (<<"src", "content", "images", "notes.txt">> :> "noDefault")

ImageMetadata(imagePath) == [kind |-> "ImageMetadata", src |-> imagePath]

\* { id, collection, data, defaultImport }
Imported(entry, defaultImport) ==
    [kind |-> "imported", id |-> entry.id, collection |-> entry.collection,
     data |-> entry.data, defaultImport |-> defaultImport]

\* A callback that lets a failing module import escape.
ImportOne_FailedImportRejects(entry) ==
    IF NoFilePath(entry) THEN Imported(entry, Null)
    ELSE IF ~InsideSrc(entry.filePath) THEN Imported(entry, Null)
    ELSE LET srcRoot == PathResolve(Cwd, PathStr(FALSE, <<"src">>))
             fullPath == PathResolve(Cwd, entry.filePath)
             imagePath == <<"src">> \o Relative(srcRoot, fullPath)
         IN  IF imagePath \in DOMAIN GlobModules
             THEN IF GlobModules[imagePath] = "image"
                  THEN Imported(entry, ImageMetadata(imagePath))
                  ELSE IF GlobModules[imagePath] = "fails" THEN Thrown
                  ELSE Imported(entry, Null)
             ELSE Imported(entry, Null)

\* The async callback of entries.map: the result for one entry.
ImportOne(entry) ==
    IF NoFilePath(entry) THEN Imported(entry, Null)
    ELSE IF ~InsideSrc(entry.filePath) THEN Imported(entry, Null)
    ELSE LET srcRoot == PathResolve(Cwd, PathStr(FALSE, <<"src">>))
             fullPath == PathResolve(Cwd, entry.filePath)
             imagePath == <<"src">> \o Relative(srcRoot, fullPath)
         IN  IF imagePath \in DOMAIN GlobModules
             THEN IF GlobModules[imagePath] = "image"
                  THEN Imported(entry, ImageMetadata(imagePath))
                  ELSE Imported(entry, Null)  \* import failed, or no default
             ELSE Imported(entry, Null)       \* no importer found

\* await Promise.all(entries.map(...)): rejects when a callback rejects.
ImportAll(entries) ==
    LET results == [i \in 1..Len(entries) |-> ImportOne(entries[i])]
    IN  IF \E i \in 1..Len(results) : results[i] = Thrown
        THEN [threw |-> TRUE, value |-> Null]
        ELSE [threw |-> FALSE, value |-> Arr(results)]

\* An importer that gives an empty array for an empty array.
imageImporter_EmptyArrayReturnsEmpty(entriesOrEntry) ==
    IF entriesOrEntry = Undefined THEN [threw |-> FALSE, value |-> Null]
    ELSE LET isArray == entriesOrEntry.kind = "array"
             entries == IF isArray THEN entriesOrEntry.elems
                        ELSE <<entriesOrEntry>>
             outsideSrc == SelectSeq(entries, IsOutsideSrc)
             all == ImportAll(entries)
         IN  IF Len(entries) > 0 /\ Len(outsideSrc) = Len(entries)
             THEN [threw |-> TRUE, value |-> Null]
             ELSE IF all.threw \/ isArray THEN all
             ELSE [threw |-> FALSE, value |-> all.value.elems[1]]

\* An importer that raises as soon as one entry is outside /src.
imageImporter_ThrowsOnAnyOutside(entriesOrEntry) ==
    IF entriesOrEntry = Undefined THEN [threw |-> FALSE, value |-> Null]
    ELSE LET isArray == entriesOrEntry.kind = "array"
             entries == IF isArray THEN entriesOrEntry.elems
                        ELSE <<entriesOrEntry>>
             outsideSrc == SelectSeq(entries, IsOutsideSrc)
             all == ImportAll(entries)
         IN  IF Len(outsideSrc) > 0 \/ Len(entries) = 0
             THEN [threw |-> TRUE, value |-> Null]
             ELSE IF all.threw \/ isArray THEN all
             ELSE [threw |-> FALSE, value |-> all.value.elems[1]]

\* The result is [threw, value]: threw = TRUE when the returned promise
\* rejects.
imageImporter(entriesOrEntry) ==
    IF entriesOrEntry = Undefined THEN [threw |-> FALSE, value |-> Null]
    ELSE LET isArray == entriesOrEntry.kind = "array"
             entries == IF isArray THEN entriesOrEntry.elems
                        ELSE <<entriesOrEntry>>
             outsideSrc == SelectSeq(entries, IsOutsideSrc)
             all == ImportAll(entries)
         IN  IF Len(outsideSrc) = Len(entries)
             THEN [threw |-> TRUE, value |-> Null]
             ELSE IF all.threw \/ isArray THEN all
             ELSE [threw |-> FALSE, value |-> all.value.elems[1]]

(***************************************************************************)
(* SpecImport: imageImporter on bounded arguments                          *)
(***************************************************************************)
\* The filePath of an entry: none, the empty string, relative paths as the
\* loader stores them (an image, an image whose import fails, a file that is
\* gone, a file without default export), paths outside /src (plainly, and
\* through ".."), and an absolute path below /src.
FilePathChoices ==
    {Undefined,
     PathStr(FALSE, <<>>),
     PathStr(FALSE, <<"src", "content", "images", "photo.jpg">>),
     PathStr(FALSE, <<"src", "content", "images", "broken.jpg">>),
     PathStr(FALSE, <<"src", "content", "images", "gone.jpg">>),
     PathStr(FALSE, <<"src", "content", "images", "notes.txt">>),
     PathStr(FALSE, <<"public", "photo.jpg">>),
     PathStr(FALSE, <<"src", "..", "public", "photo.jpg">>),
     PathStr(TRUE, <<"proj", "src", "content", "images", "photo.jpg">>)}

\* The i-th entry of a call, with the given filePath.
Entry(i, filePath) ==
    [kind |-> "entry", id |-> i, collection |-> "images", data |-> Num(i),
     filePath |-> filePath]

ImportArguments ==
    {Undefined}
        \cup {Entry(1, filePath) : filePath \in FilePathChoices}
        \cup {Arr([i \in 1..Len(q) |-> Entry(i, q[i])]) :
                 q \in SeqsUpTo(FilePathChoices, MaxEntries)}

InitImport ==
    /\ \E arg \in ImportArguments :
          importCall = [called |-> FALSE, arg |-> arg]
    /\ ResolveIdle
    /\ BuildIdle
    /\ SerializeIdle
    /\ NoLoader

CallImageImporter ==
    /\ ~importCall.called
    /\ importCall' = [called |-> TRUE, arg |-> importCall.arg,
                      result |-> imageImporter(importCall.arg)]
    /\ UNCHANGED <<resolveCall, buildCall, serializeCall, loaderVars>>

NextImport == CallImageImporter

SpecImport == InitImport /\ [][NextImport]_vars

(***************************************************************************)
(* The files: what stat and the EXIF parser report                         *)
(***************************************************************************)
\* The contents a file can have.
Contents == {"canon", "dated"}

\* The writers of the instance alternate the two contents: what a file
\* holds is known from its mtime.
ContentAt(mtime) == IF mtime % 2 = 1 THEN "canon" ELSE "dated"

\* exiftool.read of a file with the given content.
ContentTags(content) ==
    IF content = "canon"
    THEN [Make |-> Str("Canon"), Directory |-> Str("/tmp"),
          SourceFile |-> Str("/tmp/photo.jpg"), FileSize |-> Str("2.3 MB")]
    ELSE [Make |-> Null, CreateDate |-> ExifDateTime(5),
          FileName |-> Str("photo.jpg")]

\* stats.size of a file with the given content.
ContentSize(content) == IF content = "canon" THEN 1 ELSE 0

File(mtime) == [exists |-> TRUE, mtime |-> mtime, content |-> ContentAt(mtime)]

\* A file that does not exist; mtime is the last one it had.
Removed(mtime) == [exists |-> FALSE, mtime |-> mtime, content |-> "canon"]

(***************************************************************************)
(* The host's record store                                                 *)
(***************************************************************************)
NoEntry == [exists |-> FALSE]

\* store.get(id)
StoreGet(st, id) == st[id]

\* generateDigest(imageData): a digest that differs when the data differs.
generateDigest(data) == data

\* store.set(entry): nothing is written, and false is returned, when the
\* stored entry has the same digest.
StoreSet(st, entry) ==
    IF st[entry.id] # NoEntry /\ st[entry.id].digest = entry.digest
    THEN st
    ELSE [st EXCEPT ![entry.id] = entry]

\* store.delete(id)
StoreDelete(st, id) == [st EXCEPT ![id] = NoEntry]

(***************************************************************************)
(* loader: processImage, in its three runs between awaits                  *)
(***************************************************************************)
Idle == [pc |-> "idle"]

\* Up to "await stat(filePath)".
StartProcessImage(filePath, origin) ==
    [pc |-> "stat", filePath |-> filePath, origin |-> origin]

\* const id = relativePath; in the other createExifLoader,
\* const id = relFromBase.replace(extname(relFromBase), "")
ProcessImageId(filePath) ==
    IF variant = "stripped" THEN StripExtension(Relative(BasePath, filePath))
    ELSE Relative(SrcRoot, filePath)

\* The id of the unlink handler: basename(filePath); in the other
\* createExifLoader, rel.replace(extname(rel), "")
UnlinkId(filePath) ==
    IF variant = "stripped" THEN StripExtension(Relative(BasePath, filePath))
    ELSE <<Basename(filePath)>>

\* The ids the instance can use: the ids of processImage and of the unlink
\* handler.
StoreIds ==
    {ProcessImageId(p) : p \in Range(ImagePaths)}
        \cup {UnlinkId(p) : p \in Range(ImagePaths)}

\* imageData.srcPath = srcPath, which only the createExifLoader with
\* stripped ids does.
WithSrcPath(data, filePath) ==
    IF variant = "stripped"
    THEN Assign(data, "srcPath",
                IF IsUnder(filePath, SrcRoot)
                THEN PathStr(FALSE, Relative(SrcRoot, filePath))
                ELSE PathStr(FALSE, <<>>))
    ELSE data

\* A change check that never finds the file unchanged.
IsUnchanged_Never(existingEntry, mtime) == FALSE

\* A change check that reads again a file whose record has no extracted tag.
IsUnchanged_RetriesEmptyRecords(existingEntry, mtime) ==
    /\ existingEntry.exists
    /\ existingEntry.data["mtime"] = mtime
    /\ DOMAIN existingEntry.data # {"fileName", "mtime"}

\* A change check that looks only for a stored entry.
IsUnchanged_AnyEntry(existingEntry, mtime) == existingEntry.exists

\* The change check: existingEntry && existingEntry.data.mtime === mtime
IsUnchanged(existingEntry, mtime) ==
    existingEntry.exists /\ existingEntry.data["mtime"] = mtime

\* A run that takes a rejected stat for a changed file and goes on to the
\* parser.
AfterStat_IgnoresStatFailure(task, files, st) ==
    LET file == files[task.filePath]
        mtime == toISOString(file.mtime)
        existingEntry == StoreGet(st, ProcessImageId(task.filePath))
    IN  IF file.exists /\ IsUnchanged(existingEntry, mtime) THEN Idle
        ELSE [pc |-> "read", filePath |-> task.filePath,
              origin |-> task.origin, mtime |-> mtime,
              size |-> ContentSize(file.content)]

\* From the result of stat to the return of the skip, the call of
\* exiftool.read, or the catch of a failed stat.  Gives the run's next state.
AfterStat(task, files, st) ==
    LET file == files[task.filePath]
        mtime == toISOString(file.mtime)
        existingEntry == StoreGet(st, ProcessImageId(task.filePath))
    IN  IF ~file.exists THEN Idle            \* stat rejected: logger.error
        ELSE IF IsUnchanged(existingEntry, mtime) THEN Idle     \* skipped
        ELSE [pc |-> "read", filePath |-> task.filePath,
              origin |-> task.origin, mtime |-> mtime,
              size |-> ContentSize(file.content)]

\* A run that gives up when exiftool.read rejects.
AfterRead_AbortsOnReadFailure(task, files, st, ld, readOk) ==
    LET file == files[task.filePath]
        tags == IF readOk /\ file.exists THEN ContentTags(file.content)
                ELSE <<>>
        imageData == buildImageData(tags, Str(Basename(task.filePath)),
                                    task.mtime, task.size, ld.tagsToExtract,
                                    ld.excludeTagsSet, ld.includeRawExif)
    IN  IF imageData.threw \/ ~(readOk /\ file.exists) THEN st
        ELSE StoreSet(st, [exists |-> TRUE,
                           id |-> ProcessImageId(task.filePath),
                           data |-> WithSrcPath(imageData.data, task.filePath),
                           digest |-> generateDigest(
                               WithSrcPath(imageData.data, task.filePath)),
                           filePath |-> Relative(<<>>, task.filePath)])

\* From the result of exiftool.read (readOk = FALSE: it rejected, tags = {})
\* to the end of processImage.  Gives the store.
AfterRead(task, files, st, ld, readOk) ==
    LET file == files[task.filePath]
        tags == IF readOk /\ file.exists THEN ContentTags(file.content)
                ELSE <<>>
        imageData == buildImageData(tags, Str(Basename(task.filePath)),
                                    task.mtime, task.size, ld.tagsToExtract,
                                    ld.excludeTagsSet, ld.includeRawExif)
    IN  IF imageData.threw THEN st           \* caught: logger.error
        ELSE StoreSet(st, [exists |-> TRUE,
                           id |-> ProcessImageId(task.filePath),
                           data |-> WithSrcPath(imageData.data, task.filePath),
                           digest |-> generateDigest(
                               WithSrcPath(imageData.data, task.filePath)),
                           filePath |-> Relative(<<>>, task.filePath)])

NoDecision == [made |-> FALSE]

\* What the change check of a step saw (the file's mtime from stat, the
\* stored data.mtime) and what the run did next.
Decision(task, files, st) ==
    LET file == files[task.filePath]
        existingEntry == StoreGet(st, ProcessImageId(task.filePath))
        next == AfterStat(task, files, st)
    IN  [made |-> TRUE, origin |-> task.origin,
         ms |-> file.mtime,
         stored |-> IF existingEntry.exists THEN existingEntry.data["mtime"]
                    ELSE Undefined,
         outcome |-> IF next.pc = "read" THEN "extract"
                     ELSE IF file.exists THEN "skipped" ELSE "statFailed"]

\* No handler ran in the step.
NoEvent == [any |-> FALSE]

\* The event a handler was called with.
Delivered(event) == [any |-> TRUE, type |-> event.type, path |-> event.path]

\* logger.<level>(...): level and the message's fixed part.
Log(level, what) == [level |-> level, what |-> what]

\* The logger calls of processImage from the result of stat on.
StatLogs(task, files, st) ==
    IF ~files[task.filePath].exists
    THEN <<Log("error", "Failed to process image")>>
    ELSE IF variant = "stripped" /\ AfterStat(task, files, st).pc = "read"
    THEN <<Log("info", "Processing file")>>
    ELSE <<>>

\* The logger calls of processImage from the result of exiftool.read on.
ReadLogs(task, files, st, ld, readOk) ==
    LET file == files[task.filePath]
        failed == ~(readOk /\ file.exists)
        tags == IF failed THEN <<>> ELSE ContentTags(file.content)
        imageData == buildImageData(tags, Str(Basename(task.filePath)),
                                    task.mtime, task.size, ld.tagsToExtract,
                                    ld.excludeTagsSet, ld.includeRawExif)
        existing == st[ProcessImageId(task.filePath)]
        success == ~(existing # NoEntry /\
                     existing.digest = generateDigest(
                         WithSrcPath(imageData.data, task.filePath)))
    IN  (IF failed THEN <<Log("warn", "EXIF read failed")>> ELSE <<>>)
        \o (IF imageData.threw
            THEN <<Log("error", "Failed to process image")>>
            ELSE IF success THEN <<Log("info", "Processed")>>
            ELSE <<Log("debug", "Skipped (no changes)")>>)

(***************************************************************************)
(* Spec: the loader, the files and the watcher                             *)
(***************************************************************************)
\* The options of the instances: two ways of selecting tags, each with and
\* without extractAll and includeRawExif, and a presets list that names a
\* property every object inherits.
SelectionOptions ==
    {[presets |-> <<>>, tags |-> <<"Make", "Directory", "FileSize">>,
      excludeTags |-> <<"Make", "FileSize">>],
     [presets |-> <<"basic">>, tags |-> <<"Make", "SourceFile">>,
      excludeTags |-> <<>>]}

OptionChoices ==
    {[presets |-> o.presets, tags |-> o.tags, excludeTags |-> o.excludeTags,
      extractAll |-> a, includeRawExif |-> r] :
        o \in SelectionOptions, a \in BOOLEAN, r \in BOOLEAN}
    \cup {[presets |-> <<"constructor">>, tags |-> <<>>,
           excludeTags |-> <<>>, extractAll |-> FALSE,
           includeRawExif |-> FALSE]}

Paths == Range(ImagePaths)

Init ==
    /\ variant = "relative"
    /\ options \in OptionChoices
    /\ loader = createExifLoader(options)
    /\ fs \in [Paths -> {Removed(0), File(1)}]
    /\ store = [id \in StoreIds |-> NoEntry]
    /\ load = [phase |-> "idle"]
    /\ watching = FALSE
    /\ events = <<>>
    /\ reactions = EmptyBag
    /\ decision = NoDecision
    /\ logged = <<>>
    /\ delivered = NoEvent
    /\ loads = 0
    /\ ResolveIdle
    /\ BuildIdle
    /\ SerializeIdle
    /\ ImportIdle

\* The options of the instance with stripped ids.
StrippedOptionChoices ==
    {o \in OptionChoices :
        o.presets = <<"basic">> /\ ~o.extractAll /\ ~o.includeRawExif}

\* The other createExifLoader of loader.ts, whose ids are base-relative
\* paths without the extension.
InitStripped ==
    /\ variant = "stripped"
    /\ options \in StrippedOptionChoices
    /\ loader = createExifLoader(options)
    /\ fs \in [Paths -> {Removed(0), File(1)}]
    /\ store = [id \in StoreIds |-> NoEntry]
    /\ load = [phase |-> "idle"]
    /\ watching = FALSE
    /\ events = <<>>
    /\ reactions = EmptyBag
    /\ decision = NoDecision
    /\ logged = <<>>
    /\ delivered = NoEvent
    /\ loads = 0
    /\ ResolveIdle
    /\ BuildIdle
    /\ SerializeIdle
    /\ ImportIdle

\* The end of load(): "if (watcher)" registers the three handlers (the host
\* passes a watcher in dev mode only).
FinishLoad(hasWatcher) ==
    /\ load' = [phase |-> "loaded"]
    /\ watching' = hasWatcher

\* A loop that walks the discovered list from its end.
Advance_Reversed(files, k, hasWatcher) ==
    IF k < Len(files)
    THEN /\ load' = [phase |-> "batch", files |-> files, k |-> k + 1,
                     task |-> StartProcessImage(files[Len(files) - k], "scan")]
         /\ watching' = watching
    ELSE FinishLoad(hasWatcher)

\* The for loop of load() after the k-th file: the next processImage call
\* runs up to its await, or the loop ends.
Advance(files, k, hasWatcher) ==
    IF k < Len(files)
    THEN /\ load' = [phase |-> "batch", files |-> files, k |-> k + 1,
                     task |-> StartProcessImage(files[k + 1], "scan")]
         /\ watching' = watching
    ELSE FinishLoad(hasWatcher)

\* load() up to "await tinyglob(...)".
LoadStart ==
    /\ ~loader.threw
    /\ load.phase = "idle"
    /\ loads < MaxLoads
    /\ load' = [phase |-> "glob"]
    /\ loads' = loads + 1
    /\ delivered' = NoEvent
    /\ decision' = NoDecision
    /\ logged' = <<Log("info", "Loading images with EXIF data")>>
    /\ UNCHANGED <<pureVars, variant, options, loader, fs, store, watching, events,
                   reactions>>

\* tinyglob resolves with the matching files that exist (globOk), or rejects
\* and the catch logs the error; then the first processImage call starts.
GlobDone(globOk, hasWatcher) ==
    /\ load.phase = "glob"
    /\ LET files == IF globOk
                    THEN SelectSeq(ImagePaths, LAMBDA p : fs[p].exists)
                    ELSE <<>>
       IN  /\ Advance(files, 0, hasWatcher)
           /\ logged' = IF ~globOk
                         THEN <<Log("error", "Error globbing files")>>
                         ELSE IF Len(files) = 0
                         THEN <<Log("error", "No images found")>>
                         ELSE <<>>
    /\ delivered' = NoEvent
    /\ decision' = NoDecision
    /\ UNCHANGED <<pureVars, variant, options, loader, fs, store, events, reactions,
                   loads>>

\* The scan's processImage gets the result of stat.
BatchStat(hasWatcher) ==
    /\ load.phase = "batch"
    /\ load.task.pc = "stat"
    /\ delivered' = NoEvent
    /\ decision' = Decision(load.task, fs, store)
    /\ logged' = StatLogs(load.task, fs, store)
    /\ LET next == AfterStat(load.task, fs, store)
       IN  IF next.pc = "read"
           THEN /\ load' = [load EXCEPT !.task = next]
                /\ watching' = watching
           ELSE Advance(load.files, load.k, hasWatcher)
    /\ UNCHANGED <<pureVars, variant, options, loader, fs, store, events, reactions,
                   loads>>

\* The scan's processImage gets the result of exiftool.read.
BatchRead(readOk, hasWatcher) ==
    /\ load.phase = "batch"
    /\ load.task.pc = "read"
    /\ store' = AfterRead(load.task, fs, store, loader, readOk)
    /\ Advance(load.files, load.k, hasWatcher)
    /\ delivered' = NoEvent
    /\ decision' = NoDecision
    /\ logged' = ReadLogs(load.task, fs, store, loader, readOk)
    /\ UNCHANGED <<pureVars, variant, options, loader, fs, events, reactions, loads>>

\* The watcher reports a change of the files, when the handlers are
\* registered.
Report(type, path) ==
    IF watching
    THEN /\ Len(events) < MaxEvents
         /\ events' = Append(events, [type |-> type, path |-> path])
    ELSE events' = events

\* A file is written: its mtime moves forward.
FsWrite(path, mtime) ==
    /\ ~loader.threw
    /\ fs[path].exists
    /\ mtime > fs[path].mtime
    /\ fs' = [fs EXCEPT ![path] = File(mtime)]
    /\ Report("change", path)
    /\ delivered' = NoEvent
    /\ decision' = NoDecision
    /\ logged' = <<>>
    /\ UNCHANGED <<pureVars, variant, options, loader, store, load, watching,
                   reactions, loads>>

\* A file is created.
FsCreate(path, mtime) ==
    /\ ~loader.threw
    /\ ~fs[path].exists
    /\ mtime > fs[path].mtime
    /\ fs' = [fs EXCEPT ![path] = File(mtime)]
    /\ Report("add", path)
    /\ delivered' = NoEvent
    /\ decision' = NoDecision
    /\ logged' = <<>>
    /\ UNCHANGED <<pureVars, variant, options, loader, store, load, watching,
                   reactions, loads>>

\* A file is removed.
FsRemove(path) ==
    /\ ~loader.threw
    /\ fs[path].exists
    /\ fs' = [fs EXCEPT ![path] = Removed(fs[path].mtime)]
    /\ Report("unlink", path)
    /\ delivered' = NoEvent
    /\ decision' = NoDecision
    /\ logged' = <<>>
    /\ UNCHANGED <<pureVars, variant, options, loader, store, load, watching,
                   reactions, loads>>

\* The watcher reports an event for a path that is not an image of the
\* collection.
OtherEvent(type, path) ==
    /\ watching
    /\ Len(events) < MaxEvents
    /\ events' = Append(events, [type |-> type, path |-> path])
    /\ delivered' = NoEvent
    /\ decision' = NoDecision
    /\ logged' = <<>>
    /\ UNCHANGED <<pureVars, variant, options, loader, fs, store, load, watching,
                   reactions, loads>>

\* onAddOrChange, up to the await in processImage.
OnAddOrChange ==
    /\ events # <<>>
    /\ Head(events).type \in {"add", "change"}
    /\ events' = Tail(events)
    /\ IF ~matches(Head(events).path)
       THEN reactions' = reactions
       ELSE /\ BagCardinality(reactions) < MaxReactions
            /\ reactions' = reactions (+)
                   SetToBag({StartProcessImage(Head(events).path, "event")})
    /\ delivered' = Delivered(Head(events))
    /\ decision' = NoDecision
    /\ logged' = IF matches(Head(events).path)
                 THEN <<Log("info", "File updated")>> ELSE <<>>
    /\ UNCHANGED <<pureVars, variant, options, loader, fs, store, load, watching,
                   loads>>

\* The unlink handler.
OnUnlink ==
    /\ events # <<>>
    /\ Head(events).type = "unlink"
    /\ events' = Tail(events)
    /\ store' = IF ~matches(Head(events).path) THEN store
                ELSE StoreDelete(store, UnlinkId(Head(events).path))
    /\ delivered' = Delivered(Head(events))
    /\ decision' = NoDecision
    /\ logged' = IF matches(Head(events).path)
                 THEN <<Log("info", "File removed")>> ELSE <<>>
    /\ UNCHANGED <<pureVars, variant, options, loader, fs, load, watching, reactions,
                   loads>>

\* A reaction's processImage gets the result of stat.
ReactionStat(task) ==
    /\ BagIn(task, reactions)
    /\ task.pc = "stat"
    /\ delivered' = NoEvent
    /\ decision' = Decision(task, fs, store)
    /\ logged' = StatLogs(task, fs, store)
    /\ LET next == AfterStat(task, fs, store)
       IN  reactions' = (reactions (-) SetToBag({task})) (+)
                           (IF next = Idle THEN EmptyBag ELSE SetToBag({next}))
    /\ UNCHANGED <<pureVars, variant, options, loader, fs, store, load, watching,
                   events, loads>>

\* A reaction's processImage gets the result of exiftool.read.
ReactionRead(task, readOk) ==
    /\ BagIn(task, reactions)
    /\ task.pc = "read"
    /\ store' = AfterRead(task, fs, store, loader, readOk)
    /\ reactions' = reactions (-) SetToBag({task})
    /\ delivered' = NoEvent
    /\ decision' = NoDecision
    /\ logged' = ReadLogs(task, fs, store, loader, readOk)
    /\ UNCHANGED <<pureVars, variant, options, loader, fs, load, watching, events,
                   loads>>

\* The process ends and a new one starts: the store is kept, the handlers,
\* the waiting events and the runs in flight are gone.
Restart ==
    /\ load.phase = "loaded"
    /\ loads < MaxLoads
    /\ load' = [phase |-> "idle"]
    /\ watching' = FALSE
    /\ events' = <<>>
    /\ reactions' = EmptyBag
    /\ delivered' = NoEvent
    /\ decision' = NoDecision
    /\ logged' = <<>>
    /\ UNCHANGED <<pureVars, variant, options, loader, fs, store, loads>>

EventTypes == {"add", "change", "unlink"}

Next ==
    \/ LoadStart
    \/ \E globOk \in BOOLEAN, hasWatcher \in BOOLEAN :
          GlobDone(globOk, hasWatcher)
    \/ \E hasWatcher \in BOOLEAN : BatchStat(hasWatcher)
    \/ \E readOk \in BOOLEAN, hasWatcher \in BOOLEAN :
          BatchRead(readOk, hasWatcher)
    \/ \E path \in Paths, mtime \in 1..MaxMtime : FsWrite(path, mtime)
    \/ \E path \in Paths, mtime \in 1..MaxMtime : FsCreate(path, mtime)
    \/ \E path \in Paths : FsRemove(path)
    \/ \E type \in EventTypes, path \in OtherPaths : OtherEvent(type, path)
    \/ OnAddOrChange
    \/ OnUnlink
    \/ \E task \in BagToSet(reactions) : ReactionStat(task)
    \/ \E task \in BagToSet(reactions), readOk \in BOOLEAN :
          ReactionRead(task, readOk)
    \/ Restart

Spec == Init /\ [][Next]_vars

SpecStripped == InitStripped /\ [][Next]_vars

\* The options of the instance whose configuration is edited: two
\* selections, both with includeRawExif.
ReconfigOptions ==
    {o \in OptionChoices :
        o.includeRawExif /\ ~o.extractAll /\ o.presets # <<"constructor">>}

InitReconfig ==
    /\ variant = "relative"
    /\ options \in ReconfigOptions
    /\ loader = createExifLoader(options)
    /\ fs \in [Paths -> {Removed(0), File(1)}]
    /\ store = [id \in StoreIds |-> NoEntry]
    /\ load = [phase |-> "idle"]
    /\ watching = FALSE
    /\ events = <<>>
    /\ reactions = EmptyBag
    /\ decision = NoDecision
    /\ logged = <<>>
    /\ delivered = NoEvent
    /\ loads = 0
    /\ ResolveIdle
    /\ BuildIdle
    /\ SerializeIdle
    /\ ImportIdle

\* The process ends, the options passed to createExifLoader are edited, and
\* a new process starts: createExifLoader computes the selection and the
\* exclusion Set from the new options; the store is kept.
Reconfigure(newOptions) ==
    /\ load.phase = "loaded"
    /\ loads < MaxLoads
    /\ newOptions # options
    /\ options' = newOptions
    /\ loader' = createExifLoader(newOptions)
    /\ load' = [phase |-> "idle"]
    /\ watching' = FALSE
    /\ events' = <<>>
    /\ reactions' = EmptyBag
    /\ delivered' = NoEvent
    /\ decision' = NoDecision
    /\ logged' = <<>>
    /\ UNCHANGED <<pureVars, variant, fs, store, loads>>

NextReconfig ==
    \/ Next
    \/ \E newOptions \in ReconfigOptions : Reconfigure(newOptions)

SpecReconfig == InitReconfig /\ [][NextReconfig]_vars

(***************************************************************************)
(* Properties of determineTagsToExtract (SpecResolve)                      *)
(***************************************************************************)
IsDefinedPreset(p) == p \in DOMAIN EXIF_PRESET_MAPPINGS

\* The tag lists of the defined presets a list names, united.
PresetUnion(presets) ==
    UNION {Range(EXIF_PRESET_MAPPINGS[p]) :
              p \in {q \in Range(presets) : IsDefinedPreset(q)}}

\* The rearrangements of a list.
Rearranged(seq) ==
    {[i \in 1..Len(seq) |-> seq[f[i]]] : f \in Permutations(1..Len(seq))}

\* C8: determineTagsToExtract returns exactly the union of the tag lists of
\* the named presets and the explicit tags: a call with defined presets
\* returns; every call that returns holds each tag once, its members are
\* that union, the same for every order of presets and tags, and with both
\* lists empty the Set is empty.
C8_ResolveIsUnion ==
    resolveCall.called =>
        LET presets == resolveCall.presets
            tags == resolveCall.tags
            result == resolveCall.result
        IN  /\ (\A p \in Range(presets) : IsDefinedPreset(p)) => ~result.threw
            /\ ~result.threw =>
                 /\ Range(result.tagsSet) = PresetUnion(presets) \cup Range(tags)
                 /\ IsInjective(result.tagsSet)
                 /\ \A ps \in Rearranged(presets), ts \in Rearranged(tags) :
                       LET other == determineTagsToExtract(ps, ts)
                       IN  /\ ~other.threw
                           /\ Range(other.tagsSet) = Range(result.tagsSet)
                 /\ (presets = <<>> /\ tags = <<>>) => result.tagsSet = <<>>

\* C8 witness: two presets with disjoint lists and an explicit tag that one
\* of them already holds were resolved to the nine tags of their union.
C8_Witness ==
    /\ resolveCall.called
    /\ resolveCall.presets = <<"datetime", "basic">>
    /\ resolveCall.tags = <<"FileSize", "GPSAltitude">>
    /\ ~resolveCall.result.threw
    /\ Len(resolveCall.result.tagsSet) = 7
    /\ Range(resolveCall.result.tagsSet) =
          {"DateTimeOriginal", "CreateDate", "DateTime", "FileSize",
           "ImageWidth", "ImageHeight", "GPSAltitude"}

\* C9: a preset identifier that is not one of the seven defined presets is
\* ignored silently: the call raises no error and its result is that of
\* resolving the same lists with the identifier removed, for every string.
C9_UnknownPresetIgnored ==
    resolveCall.called =>
        /\ ~resolveCall.result.threw
        /\ Range(resolveCall.result.tagsSet) =
              Range(determineTagsToExtract(
                        SelectSeq(resolveCall.presets, IsDefinedPreset),
                        resolveCall.tags).tagsSet)

(***************************************************************************)
(* Properties of buildImageData (SpecBuild)                                *)
(***************************************************************************)
\* The record's own field names: the seeded ones and the nested raw record.
SeededFields == {"fileName", "mtime"}

OwnFields == SeededFields \cup {"rawExif"}

\* Every name the instances use.
AllTagNames ==
    SelectableTags \cup DOMAIN RawChoices \cup UNION {Range(e) : e \in Exclusions}

\* C1: with an explicit selection S, exclusion E and raw record R, a tag
\* name T other than FileSize (and other than the record's own field names)
\* is a top-level field exactly when T is in S, T is not in E and the lookup
\* R[T] gives a value that is neither null nor undefined; the field then
\* holds the serialized R[T]; with S empty the only fields are fileName and
\* mtime, plus rawExif when includeRawExif is set.
C1_ExplicitSelectionFilter ==
    (buildCall.called /\ ~buildCall.tagsToExtract.isNull) =>
        LET S == Range(buildCall.tagsToExtract.set)
            E == Range(buildCall.excludeTags)
            R == buildCall.tags
            data == buildCall.result.data
        IN  /\ ~buildCall.result.threw
            /\ \A T \in AllTagNames \ ({"FileSize"} \cup OwnFields) :
                  /\ T \in DOMAIN data <=>
                        (T \in S /\ T \notin E /\ ~IsNullish(GetProp(R, T)))
                  /\ T \in DOMAIN data =>
                        data[T] = toSerializable(GetProp(R, T))
            /\ S = {} =>
                  DOMAIN data = SeededFields \cup
                      (IF buildCall.includeRawExif THEN {"rawExif"} ELSE {})

\* C1 witness: Make and Directory were selected, Directory was also
\* excluded, both have values in the raw record (which also has an
\* unselected FileSize): Make was copied, Directory and FileSize were not.
C1_Witness ==
    /\ buildCall.called
    /\ buildCall.tagsToExtract = Explicit(<<"Directory", "Make">>)
    /\ SetHas(buildCall.excludeTags, "Directory")
    /\ ~SetHas(buildCall.excludeTags, "Make")
    /\ {"Make", "Directory", "FileSize"} \subseteq
          NonNullEntries(buildCall.tags)
    /\ "Make" \in DOMAIN buildCall.result.data
    /\ buildCall.result.data["Make"] = Str("Canon")
    /\ "Directory" \notin DOMAIN buildCall.result.data
    /\ "FileSize" \notin DOMAIN buildCall.result.data

\* C2: in extract-all mode no tag name of the exclusion Set, FileSize
\* included, is a top-level field of the output.
C2_ExclusionDominatesAll ==
    (buildCall.called /\ buildCall.tagsToExtract.isNull) =>
        /\ ~buildCall.result.threw
        /\ \A T \in Range(buildCall.excludeTags) :
              T \notin DOMAIN buildCall.result.data

\* C4: with includeRawExif the nested rawExif record has exactly the tag
\* names of the raw record whose value is neither null nor undefined, each
\* with its serialized value, whatever the selection and the exclusion Set.
C4_RawExifUnfiltered ==
    (buildCall.called /\ buildCall.includeRawExif) =>
        /\ ~buildCall.result.threw
        /\ "rawExif" \in DOMAIN buildCall.result.data
        /\ LET rawExif == buildCall.result.data["rawExif"]
           IN  /\ rawExif.kind = "object"
               /\ DOMAIN rawExif.props =
                     {t \in DOMAIN buildCall.tags :
                         buildCall.tags[t] \notin {Null, Undefined}}
               /\ \A t \in DOMAIN rawExif.props :
                     rawExif.props[t] = toSerializable(buildCall.tags[t])

\* C4 witness: with an empty selection, Directory excluded and present in
\* the raw record beside a null Make, rawExif has Directory and not Make.
C4_Witness ==
    /\ buildCall.called
    /\ buildCall.includeRawExif
    /\ buildCall.tagsToExtract = Explicit(<<>>)
    /\ SetHas(buildCall.excludeTags, "Directory")
    /\ "Directory" \in NonNullEntries(buildCall.tags)
    /\ "Make" \in DOMAIN buildCall.tags
    /\ buildCall.tags["Make"] = Null
    /\ "Directory" \in DOMAIN buildCall.result.data["rawExif"].props
    /\ "Make" \notin DOMAIN buildCall.result.data["rawExif"].props

\* C6: in extract-all mode the top-level fields are fileName, mtime, every
\* raw tag with a value whose name is not excluded, and FileSize (beside
\* rawExif when includeRawExif is set); FileSize holds the stat size, and
\* every other copied tag its serialized raw value.
C6_ExtractAllFields ==
    (buildCall.called /\ buildCall.tagsToExtract.isNull) =>
        LET data == buildCall.result.data
            kept == {t \in DOMAIN buildCall.tags :
                        /\ buildCall.tags[t] \notin {Null, Undefined}
                        /\ t \notin Range(buildCall.excludeTags)}
        IN  /\ ~buildCall.result.threw
            /\ DOMAIN data = SeededFields \cup kept \cup {"FileSize"} \cup
                  (IF buildCall.includeRawExif THEN {"rawExif"} ELSE {})
            /\ data["FileSize"] = Num(buildCall.fileSize)
            /\ \A t \in kept \ ({"FileSize"} \cup OwnFields) :
                  data[t] = toSerializable(buildCall.tags[t])

\* C6 witness: extract-all on a raw record with Make, Directory and a
\* parser FileSize, Directory excluded: Make copied, FileSize from stat.
C6_Witness ==
    /\ buildCall.called
    /\ buildCall.tagsToExtract.isNull
    /\ buildCall.excludeTags = <<"Directory">>
    /\ {"Make", "Directory", "FileSize"} \subseteq
          NonNullEntries(buildCall.tags)
    /\ buildCall.fileSize = 1
    /\ buildCall.result.data["FileSize"] = Num(1)
    /\ buildCall.result.data["Make"] = Str("Canon")
    /\ "Directory" \notin DOMAIN buildCall.result.data

\* C7: the returned record's fileName and mtime fields equal the fileName
\* and mtime arguments; no raw or selected tag replaces them.
C7_SeededFieldsKept ==
    buildCall.called =>
        /\ ~buildCall.result.threw
        /\ buildCall.result.data["fileName"] = ArgFileName
        /\ buildCall.result.data["mtime"] = ArgMtime

(***************************************************************************)
(* Properties of the loader (Spec)                                         *)
(***************************************************************************)
\* The eleven built-in filesystem-leak tags.
LeakyNames ==
    {"Directory", "FileName", "FileModifyDate", "FileAccessDate",
     "FileInodeChangeDate", "FilePermissions", "FileType",
     "FileTypeExtension", "MIMEType", "ExifToolVersion", "SourceFile"}

StoredEntries == {store[id] : id \in {i \in StoreIds : store[i].exists}}

\* C3: for every loader configuration the exclusion Set given to
\* processImage holds all eleven built-in filesystem-leak tags, and none of
\* them is a top-level field of a stored record.
C3_LeakyTagsAlwaysExcluded ==
    ~loader.threw =>
        /\ Cardinality(LeakyNames) = 11
        /\ LeakyNames \subseteq Range(loader.excludeTagsSet)
        /\ \A e \in StoredEntries : DOMAIN e.data \cap LeakyNames = {}

\* C3 witness: with extractAll and no excludeTags, a file whose raw record
\* has Directory and SourceFile was stored with its Make.
C3_Witness ==
    /\ options.extractAll
    /\ options.excludeTags = <<>>
    /\ \E e \in StoredEntries :
          /\ "Make" \in DOMAIN e.data
          /\ e.data["Make"] = ContentTags("canon")["Make"]
          /\ {"Directory", "SourceFile"} \subseteq DOMAIN ContentTags("canon")

\* C5: with includeRawExif, no tag named in the effective exclusion Set
\* appears anywhere in a stored record's data, neither as a top-level field
\* nor inside rawExif.
C5_RawExifMinusExclusions ==
    (~loader.threw /\ options.includeRawExif) =>
        \A e \in StoredEntries : \A T \in Range(loader.excludeTagsSet) :
            /\ T \notin DOMAIN e.data
            /\ T \notin DOMAIN e.data["rawExif"].props

\* C5 as amended: with includeRawExif, exclusions apply to the top-level
\* copy only.  No tag of the effective exclusion Set is a top-level field of
\* a stored record, apart from the seeded fileName and mtime and the
\* FileSize that extract-all mode sets from stat; rawExif holds every tag
\* of the parser's record that has a value, excluded or not.
C5_ExclusionsTopLevelOnly ==
    (~loader.threw /\ options.includeRawExif) =>
        \A e \in StoredEntries :
            /\ \A T \in Range(loader.excludeTagsSet) \
                     (SeededFields \cup
                      (IF options.extractAll THEN {"FileSize"} ELSE {})) :
                  T \notin DOMAIN e.data
            /\ "rawExif" \in DOMAIN e.data
            /\ DOMAIN e.data["rawExif"].props \in
                  {NonNullEntries(ContentTags(c)) : c \in Contents} \cup {{}}

\* C5 witness: with includeRawExif, a stored record has the excluded
\* Directory and SourceFile inside rawExif and not at top level.
C5_Witness ==
    /\ options.includeRawExif
    /\ \E e \in StoredEntries :
          /\ {"Directory", "SourceFile"} \subseteq
                DOMAIN e.data["rawExif"].props
          /\ {"Directory", "SourceFile"} \subseteq
                Range(loader.excludeTagsSet)
          /\ {"Directory", "SourceFile"} \cap DOMAIN e.data = {}

\* C10: processImage skips the file exactly when the store holds a record
\* under the file's id whose data.mtime is the file's current mtime ISO
\* string; with no record or any other mtime string it calls the parser.
C10_SkipIffSameMtime ==
    (decision.made /\ decision.outcome # "statFailed") =>
        /\ decision.outcome \in {"skipped", "extract"}
        /\ decision.outcome = "skipped" <=>
              /\ decision.stored # Undefined
              /\ decision.stored = toISOString(decision.ms)

\* C10 witness: on a change notification the stored record's mtime is one
\* millisecond before the file's, and the file is extracted again.
C10_Witness ==
    /\ decision.made
    /\ decision.origin = "event"
    /\ decision.stored = toISOString(1)
    /\ decision.ms = 2
    /\ decision.outcome = "extract"

(***************************************************************************)
(* Properties of toSerializable (SpecSerialize)                            *)
(***************************************************************************)
\* r is the number n / d (n, d integers): sign(n) over 0 when d = 0.
IsQuotient(r, n, d) ==
    /\ r.kind = "number"
    /\ IF d = 0 THEN r.den = 0 /\ r.num = Sign(n)
       ELSE r.den > 0 /\ r.num * d = r.den * n

Half == [kind |-> "number", num |-> 1, den |-> 2]

\* The own numeric field of a plain object, read as an integer.
HasNumericField(value, name) ==
    /\ name \in DOMAIN value.props
    /\ value.props[name].kind = "number"
    /\ value.props[name].den = 1

\* C11 (as stated): a plain object with numeric numerator and denominator
\* fields serializes to numerator divided by denominator, and
\* { numerator: 1, denominator: 2 } to 0.5.
C11_NumeratorDenominator ==
    (/\ serializeCall.called
     /\ serializeCall.value.kind = "object"
     /\ HasNumericField(serializeCall.value, "numerator")
     /\ HasNumericField(serializeCall.value, "denominator"))
    => /\ IsQuotient(serializeCall.result,
                     serializeCall.value.props["numerator"].num,
                     serializeCall.value.props["denominator"].num)
       /\ serializeCall.value =
              Obj([numerator |-> Num(1), denominator |-> Num(2)])
          => serializeCall.result = Half

\* C11 (amended): a plain object with numeric num and den fields serializes
\* to num divided by den (a zero den gives a non-finite number), and
\* { num: 1, den: 2 } to 0.5.
C11_NumDenQuotient ==
    (/\ serializeCall.called
     /\ serializeCall.value.kind = "object"
     /\ HasNumericField(serializeCall.value, "num")
     /\ HasNumericField(serializeCall.value, "den"))
    => /\ IsQuotient(serializeCall.result,
                     serializeCall.value.props["num"].num,
                     serializeCall.value.props["den"].num)
       /\ serializeCall.value = Obj([num |-> Num(1), den |-> Num(2)])
          => serializeCall.result = Half

\* { num: 1, den: 2 } has been serialized to 0.5.
C11_Witness ==
    /\ serializeCall.called
    /\ serializeCall.value = Obj([num |-> Num(1), den |-> Num(2)])
    /\ serializeCall.result = Half

\* C12: toSerializable is total: every call returns a value, none raises.
C12_SerializerTotal ==
    serializeCall.called => serializeCall.result # Thrown

IsPrimitive(v) == v.kind \in {"string", "number", "boolean"}

\* C13: null and undefined give null; a string, number or boolean is
\* returned unchanged; an array gives an array of the same length, element
\* by element; and every result is null, a string, a number, a boolean, or an
\* array of strings, numbers and booleans.
C13_SerializerShape ==
    serializeCall.called =>
        LET value == serializeCall.value
            result == serializeCall.result
        IN  /\ IsNullish(value) => result = Null
            /\ IsPrimitive(value) => result = value
            /\ value.kind \in {"array", "cyclicArray"} =>
                  /\ result.kind = "array"
                  /\ value.kind = "array" =>
                        /\ Len(result.elems) = Len(value.elems)
                        /\ \A i \in 1..Len(value.elems) :
                              result.elems[i] = toSerializable(value.elems[i])
            /\ \/ result = Null
               \/ IsPrimitive(result)
               \/ /\ result.kind = "array"
                  /\ \A i \in 1..Len(result.elems) :
                        IsPrimitive(result.elems[i])

(***************************************************************************)
(* Properties of the loader's batch and of its error handling (Spec)       *)
(***************************************************************************)
\* C14: the id of every stored entry is the file name, with its extension,
\* of the image the entry was made from, also for files in subdirectories.
C14_IdIsFileName ==
    \A id \in StoreIds :
        store[id].exists => id = <<Basename(store[id].filePath)>>

HasLogged(entries, level, what) ==
    \E i \in 1..Len(entries) : entries[i] = Log(level, what)

\* The for loop of load() goes on after the file in progress: the next file
\* of the same list is started, or the loop has ended.
BatchContinues ==
    IF load.k < Len(load.files)
    THEN /\ load'.phase = "batch"
         /\ load'.files = load.files
         /\ load'.k = load.k + 1
         /\ load'.task = StartProcessImage(load.files[load.k + 1], "scan")
    ELSE load'.phase = "loaded"

\* The step in which the batch's processImage gets a rejected exiftool.read.
BatchReadFails ==
    /\ load.phase = "batch"
    /\ load.task.pc = "read"
    /\ load' # load
    /\ HasLogged(logged', "warn", "EXIF read failed")

\* C17: when the parser fails for a file of the batch, a warning is logged,
\* the record is built from an empty tag record and stored with fileName and
\* mtime, no other record changes, and the batch goes on with the next file.
C17_ParserFailureIsolated ==
    [][BatchReadFails =>
         LET id == ProcessImageId(load.task.filePath) IN
         /\ store'[id].exists
         /\ store'[id].data["fileName"] = Str(Basename(load.task.filePath))
         /\ store'[id].data["mtime"] = load.task.mtime
         /\ DOMAIN store'[id].data \subseteq
               {"fileName", "mtime", "FileSize", "rawExif"}
         /\ "rawExif" \in DOMAIN store'[id].data =>
               store'[id].data["rawExif"] = Obj(<<>>)
         /\ \A other \in StoreIds \ {id} : store'[other] = store[other]
         /\ BatchContinues]_vars

\* The parser failed for the first of two files: its record is stored and
\* the second file has been started.
C17_Witness ==
    /\ HasLogged(logged, "warn", "EXIF read failed")
    /\ load.phase = "batch"
    /\ load.k = 2
    /\ load.task.pc = "stat"
    /\ store[ProcessImageId(load.files[1])].exists
    /\ DOMAIN store[ProcessImageId(load.files[1])].data = {"fileName", "mtime"}

\* The step in which the batch's processImage gets a rejected stat.
BatchStatFails ==
    /\ load.phase = "batch"
    /\ load.task.pc = "stat"
    /\ load' # load
    /\ ~fs[load.task.filePath].exists

\* The step in which an event's processImage gets a rejected stat.
ReactionStatFails ==
    /\ decision'.made
    /\ decision'.origin = "event"
    /\ decision'.outcome = "statFailed"

\* C18: when stat fails for a file, processImage logs an error, the store is
\* left as it is, and the batch goes on with the next file.
C18_StatFailureIsolated ==
    [][/\ BatchStatFails =>
            /\ store' = store
            /\ logged' = <<Log("error", "Failed to process image")>>
            /\ BatchContinues
       /\ ReactionStatFails =>
            /\ store' = store
            /\ logged' = <<Log("error", "Failed to process image")>>
            /\ load' = load]_vars

\* stat failed for the first of two files, which has a record from an
\* earlier load, and the second file has been started.
C18_Witness ==
    /\ decision.made
    /\ decision.origin = "scan"
    /\ decision.outcome = "statFailed"
    /\ decision.stored # Undefined
    /\ logged = <<Log("error", "Failed to process image")>>
    /\ load.phase = "batch"
    /\ load.k = 2
    /\ store[ProcessImageId(load.files[1])].exists

\* C19: when no file matches, load reports it at warning level, does not
\* fail, and the store holds no record when load has returned.
C19_NoMatchEmptyCollection ==
    (\E i \in 1..Len(logged) : logged[i].what = "No images found") =>
        /\ HasLogged(logged, "warn", "No images found")
        /\ load.phase = "loaded"
        /\ \A id \in StoreIds : ~store[id].exists

\* The file in progress has been dealt with by the step: the parser's result
\* arrived, or the run ended at the stat (failure or skip).
FileFinished ==
    \/ load.task.pc = "read"
    \/ load.task.pc = "stat" /\ AfterStat(load.task, fs, store) = Idle

\* C20: the batch is sequential: the one file in flight is the k-th of the
\* discovered list, k starts at 1 and moves to k + 1 only when the k-th
\* file's processImage has finished, the loop ends only after the last
\* file, and a store write during the batch is for the k-th file.
C20_BatchSequential ==
    [][/\ load'.phase = "batch" =>
            /\ load'.k \in 1..Len(load'.files)
            /\ load'.task.pc \in {"stat", "read"}
            /\ load'.task.filePath = load'.files[load'.k]
       /\ (load.phase # "batch" /\ load'.phase = "batch") => load'.k = 1
       /\ (load.phase = "batch" /\ load'.phase = "batch" /\ load' # load) =>
            /\ load'.files = load.files
            /\ \/ /\ load'.k = load.k
                  /\ load.task.pc = "stat"
                  /\ load'.task.pc = "read"
               \/ /\ load'.k = load.k + 1
                  /\ load'.task.pc = "stat"
                  /\ FileFinished
       /\ (load.phase = "batch" /\ load'.phase # "batch") =>
            /\ load.k = Len(load.files)
            /\ FileFinished
       /\ (load.phase = "batch" /\ store' # store) =>
            /\ load.task.pc = "read"
            /\ \A id \in StoreIds :
                  store'[id] # store[id] =>
                      id = ProcessImageId(load.files[load.k])]_vars

\* The second file is at the parser while the first one's record is written
\* and the second one's is not.
C20_Witness ==
    /\ load.phase = "batch"
    /\ load.k = 2
    /\ load.task.pc = "read"
    /\ store[ProcessImageId(load.files[1])].exists
    /\ ~store[ProcessImageId(load.files[2])].exists

(***************************************************************************)
(* Properties of imageImporter (SpecImport)                                *)
(***************************************************************************)
\* The entries a call requests.
Requested(arg) == IF arg.kind = "array" THEN arg.elems ELSE <<arg>>

\* The directory a path string names, from the project root: its segments
\* with every ".." cancelled against the segment before it.
ResolvedFromRoot(filePath) ==
    Normalize((IF filePath.absolute THEN <<>> ELSE Cwd) \o filePath.segs, <<>>)

\* The entry has an importable source path: a filePath, and one that
\* resolves to the project's src directory or below it.
Importable(entry) ==
    /\ entry.filePath # Undefined
    /\ entry.filePath.absolute \/ entry.filePath.segs # <<>>
    /\ Len(ResolvedFromRoot(entry.filePath)) >= 2
    /\ ResolvedFromRoot(entry.filePath)[1] = "proj"
    /\ ResolvedFromRoot(entry.filePath)[2] = "src"

\* C15: imageImporter raises only when every requested entry lacks an
\* importable source path; with at least one importable entry it returns.
C15_HardErrorOnlyWhenNoneImportable ==
    (importCall.called /\ importCall.arg # Undefined) =>
        LET entries == Requested(importCall.arg) IN
        /\ importCall.result.threw =>
              \A i \in 1..Len(entries) : ~Importable(entries[i])
        /\ (\E i \in 1..Len(entries) : Importable(entries[i])) =>
              ~importCall.result.threw

\* The call with an entry without filePath and an entry outside /src raised.
C15_Witness ==
    /\ importCall.called
    /\ importCall.arg.kind = "array"
    /\ Len(importCall.arg.elems) = 2
    /\ importCall.arg.elems[1].filePath = Undefined
    /\ importCall.arg.elems[2].filePath =
          PathStr(FALSE, <<"public", "photo.jpg">>)
    /\ importCall.result.threw

\* What importing the module of an importable entry gives: the image's
\* metadata, or null when there is no module, the import fails or the
\* module has no default export.
ExpectedImport(entry) ==
    LET imagePath == SubSeq(ResolvedFromRoot(entry.filePath), 2,
                            Len(ResolvedFromRoot(entry.filePath)))
    IN  IF imagePath \in DOMAIN GlobModules /\ GlobModules[imagePath] = "image"
        THEN ImageMetadata(imagePath)
        ELSE Null

\* C16: for an array in which some entries are importable (at least one
\* has a source path under src) the call returns an array of the same length
\* and order; result i has the id, collection and data of entry i; its
\* defaultImport is null when entry i has no filePath, a path outside src,
\* no module or a failing module, and in every case depends on entry i alone.
C16_MixedArrayResults ==
    (/\ importCall.called
     /\ importCall.arg.kind = "array"
     /\ \E i \in 1..Len(importCall.arg.elems) :
           Importable(importCall.arg.elems[i]))
    => LET entries == importCall.arg.elems
           result == importCall.result
       IN  /\ ~result.threw
           /\ result.value.kind = "array"
           /\ Len(result.value.elems) = Len(entries)
           /\ \A i \in 1..Len(entries) :
                 /\ result.value.elems[i].id = entries[i].id
                 /\ result.value.elems[i].collection = entries[i].collection
                 /\ result.value.elems[i].data = entries[i].data
                 /\ result.value.elems[i].defaultImport =
                       IF Importable(entries[i])
                       THEN ExpectedImport(entries[i])
                       ELSE Null

\* An entry whose import fails and an entry outside /src next to each
\* other: both results are null and the call returned.
C16_Witness ==
    /\ importCall.called
    /\ importCall.arg.kind = "array"
    /\ Len(importCall.arg.elems) = 2
    /\ importCall.arg.elems[1].filePath =
          PathStr(FALSE, <<"src", "content", "images", "broken.jpg">>)
    /\ importCall.arg.elems[2].filePath =
          PathStr(FALSE, <<"src", "..", "public", "photo.jpg">>)
    /\ ~importCall.result.threw
    /\ importCall.result.value.elems[1].defaultImport = Null
    /\ importCall.result.value.elems[2].defaultImport = Null

(***************************************************************************)
(* Properties of change detection, events and removal (Spec)               *)
(***************************************************************************)
\* The step in which a processImage run gets the result of stat and the
\* store holds a record of the file with the mtime stat reported.
StatSeesSameMtime ==
    /\ decision'.made
    /\ decision'.outcome # "statFailed"
    /\ decision'.stored = toISOString(decision'.ms)

\* The step ends a reaction that was waiting for stat, and starts nothing.
ReactionEndsAtStat ==
    /\ load' = load
    /\ \E task \in BagToSet(reactions) :
          /\ task.pc = "stat"
          /\ reactions' = reactions (-) SetToBag({task})

\* C22: a skipped file has no effects.  When processImage finds a stored
\* record whose mtime equals the file's current mtime it returns: the parser
\* is not called, nothing is logged, and the store is left as it is.
C22_SkipHasNoEffects ==
    [][StatSeesSameMtime =>
         /\ store' = store
         /\ logged' = <<>>
         /\ decision'.origin = "scan" => BatchContinues /\ reactions' = reactions
         /\ decision'.origin = "event" => ReactionEndsAtStat]_vars

\* C22 witness: a change notification found the record's mtime equal to the
\* file's and the run ended there, with the record still stored.
C22_Witness ==
    /\ decision.made
    /\ decision.origin = "event"
    /\ decision.outcome = "skipped"
    /\ decision.stored = toISOString(decision.ms)
    /\ reactions = EmptyBag
    /\ \E id \in StoreIds :
          store[id].exists /\ store[id].data["mtime"] = decision.stored

\* The step in which the unlink handler runs for an image of the collection.
UnlinkHandled(path) ==
    delivered' = Delivered([type |-> "unlink", path |-> path])

\* C23: removal deletes the file's record.  The id the unlink handler passes
\* to store.delete is the id under which processImage stored the file: right
\* after the handler ran for a matching file, the store holds no record of
\* that file.
C23_UnlinkDeletesRecord ==
    [][\A path \in Paths :
          UnlinkHandled(path) => ~store'[ProcessImageId(path)].exists]_vars

\* The step in which the only reaction in flight, one for the given file,
\* gets the result of exiftool.read and ends, with no event waiting: every
\* change of the file since that reaction's stat was reported while the
\* handlers were registered, and every reaction to one has completed.
LastReactionEnds(task) ==
    /\ BagIn(task, reactions)
    /\ task.pc = "read"
    /\ BagCardinality(reactions) = 1
    /\ reactions' = EmptyBag
    /\ load' = load
    /\ events = <<>>
    /\ events' = <<>>

\* C24: reactions for one file do not leave a stale record.  When the last
\* add/change reaction for a file completes and the file still exists, the
\* stored record's mtime is the file's current mtime, however the reactions
\* overlapped.
C24_NoStaleRecord ==
    [][\A task \in BagToSet(reactions) :
          (LastReactionEnds(task) /\ fs[task.filePath].exists) =>
              /\ store'[ProcessImageId(task.filePath)].exists
              /\ store'[ProcessImageId(task.filePath)].data["mtime"] =
                    toISOString(fs[task.filePath].mtime)]_vars

\* The step in which a handler runs for a path that is outside the base
\* directory or does not match the pattern.
ForeignEventHandled ==
    /\ delivered'.any
    /\ delivered'.path \in OtherPaths

\* C26: watcher events for paths outside the base directory, or not matching
\* the patterns, leave the store unchanged: the handlers return before any
\* store call, start no processImage run and log nothing.
C26_ForeignEventsIgnored ==
    [][ForeignEventHandled =>
         /\ store' = store
         /\ reactions' = reactions
         /\ logged' = <<>>]_vars

\* C26 witness: the unlink handler ran for such a path while the store held
\* a record.
C26_Witness ==
    /\ delivered.any
    /\ delivered.type = "unlink"
    /\ delivered.path \in OtherPaths
    /\ \E id \in StoreIds : store[id].exists

\* A record as processImage builds it from an empty tag record: no
\* extracted tag.
NoExtractedTags(data) ==
    /\ DOMAIN data \subseteq {"fileName", "mtime", "FileSize", "rawExif"}
    /\ "rawExif" \in DOMAIN data => DOMAIN data["rawExif"].props = {}

\* The processImage runs in flight.
Running ==
    (IF load.phase = "batch" THEN {load.task} ELSE {}) \cup BagToSet(reactions)

\* The step in which the given run gets a rejected exiftool.read.
ReadFailsFor(task) ==
    /\ task.pc = "read"
    /\ HasLogged(logged', "warn", "EXIF read failed")
    /\ IF task.origin = "scan" THEN load' # load
       ELSE reactions' = reactions (-) SetToBag({task})

\* The step in which the given run gets the result of stat.
StatDoneFor(task) ==
    /\ task.pc = "stat"
    /\ decision'.made
    /\ decision'.origin = task.origin
    /\ IF task.origin = "scan" THEN load' # load
       ELSE CopiesIn(task, reactions') = CopiesIn(task, reactions) - 1

\* C27: after an EXIF read failure the record is stored with the mtime the
\* run's stat reported and with no extracted tag; and every later scan or
\* change notification that finds such a record with the file's mtime skips
\* the file, so the failed read is not tried again until the mtime changes.
C27_FailedReadNotRetried ==
    [][\A task \in Running :
          LET id == ProcessImageId(task.filePath) IN
          /\ ReadFailsFor(task) =>
                /\ store'[id].exists
                /\ store'[id].data["mtime"] = task.mtime
                /\ NoExtractedTags(store'[id].data)
          /\ (/\ StatDoneFor(task)
              /\ fs[task.filePath].exists
              /\ store[id].exists
              /\ NoExtractedTags(store[id].data)
              /\ store[id].data["mtime"] =
                    toISOString(fs[task.filePath].mtime)) =>
                /\ decision'.outcome = "skipped"
                /\ store' = store
                /\ ~HasLogged(logged', "warn", "EXIF read failed")
                /\ \A run \in Running' : run.pc # "read" \/ run \in Running
         ]_vars

\* C27 witness: with includeRawExif, every stored record has an empty
\* rawExif, which only a failed read leaves, and a later run for such a file
\* has just skipped it.
C27_Witness ==
    /\ options.includeRawExif
    /\ decision.made
    /\ decision.outcome = "skipped"
    /\ \E id \in StoreIds : store[id].exists
    /\ \A id \in StoreIds :
          store[id].exists => DOMAIN store[id].data["rawExif"].props = {}

(***************************************************************************)
(* Properties of the ids and of removal (SpecStripped)                     *)
(***************************************************************************)
\* The entry is the record of the file at the given path.
IsRecordOf(entry, path) == entry.filePath = Relative(<<>>, path)

\* C21: store ids are per file.  Two distinct files of the base directory
\* never share an id, so a record under an id is never replaced by the
\* record of another file, a file is skipped by the change check only on
\* its own record, and the unlink handler deletes no record but that of the
\* removed file.
C21_IdsPerFile ==
    [][/\ \A id \in StoreIds :
             (store[id].exists /\ store'[id].exists) =>
                 store'[id].filePath = store[id].filePath
       /\ \A task \in Running :
             (StatDoneFor(task) /\ decision'.outcome = "skipped") =>
                 IsRecordOf(store[ProcessImageId(task.filePath)],
                            task.filePath)
       /\ \A path \in Paths : \A id \in StoreIds :
             (UnlinkHandled(path) /\ store[id].exists /\ ~store'[id].exists)
                 => IsRecordOf(store[id], path)]_vars

\* The step in which a reaction for a file that no longer exists gets the
\* result of exiftool.read, with no event waiting: the file's removal was
\* reported after the reaction's stat, the unlink handler has run for it,
\* and no add or change event has arrived since.
ReadEndsAfterUnlink(task) ==
    /\ BagIn(task, reactions)
    /\ task.pc = "read"
    /\ reactions' = reactions (-) SetToBag({task})
    /\ load' = load
    /\ ~fs[task.filePath].exists
    /\ events = <<>>

\* C25: a removed file stays removed.  A reaction that was past its stat
\* when the unlink handler ran for its file does not write the record back:
\* when it ends, the store holds no record under the file's id.
C25_RemovedStaysRemoved ==
    [][\A task \in BagToSet(reactions) :
          ReadEndsAfterUnlink(task) =>
              ~store'[ProcessImageId(task.filePath)].exists]_vars

(***************************************************************************)
(* Properties of a load after the options changed (SpecReconfig)           *)
(***************************************************************************)
\* buildImageData applied to the file as stat and a successful
\* exiftool.read give it, under the loader made from the given options.
RecordUnder(files, path, opts) ==
    LET file == files[path]
        ld == createExifLoader(opts)
    IN  buildImageData(ContentTags(file.content), Str(Basename(path)),
                       toISOString(file.mtime), ContentSize(file.content),
                       ld.tagsToExtract, ld.excludeTagsSet,
                       ld.includeRawExif).data

\* The step in which load() ends after its last file.
LoadCompletes ==
    /\ load.phase = "batch"
    /\ load'.phase = "loaded"

\* C28: after a load completes, the stored record of a discovered file that
\* was read successfully at its current mtime (by this load or by an earlier
\* one, under whatever options) is buildImageData of that file under the
\* loader's current options.
C28_RecordsFollowOptions ==
    [][LoadCompletes =>
         \A path \in Range(load.files) :
            LET entry == store'[ProcessImageId(path)] IN
            (/\ fs'[path].exists
             /\ entry.exists
             /\ entry.data["mtime"] = toISOString(fs'[path].mtime)
             /\ \E opts \in ReconfigOptions :
                   entry.data = RecordUnder(fs', path, opts))
               => entry.data = RecordUnder(fs', path, options')]_vars

(***************************************************************************)
(* FileSize in buildImageData (SpecBuild)                                  *)
(***************************************************************************)
\* C29: whenever the record of buildImageData has a top-level FileSize, its
\* value is the fileSize argument (the byte count from stat), never the
\* parser's FileSize tag; with an explicit selection the field is present
\* exactly when FileSize is in the selection and not in the exclusion Set,
\* whether or not the raw record has a FileSize tag.
C29_FileSizeFromStat ==
    buildCall.called =>
        LET data == buildCall.result.data IN
        /\ "FileSize" \in DOMAIN data =>
              data["FileSize"] = Num(buildCall.fileSize)
        /\ ~buildCall.tagsToExtract.isNull =>
              ("FileSize" \in DOMAIN data <=>
                  /\ "FileSize" \in Range(buildCall.tagsToExtract.set)
                  /\ "FileSize" \notin Range(buildCall.excludeTags))

\* C29 witness: FileSize selected beside Make and not excluded, a raw record
\* whose parser FileSize is a string: the field holds the stat size.
C29_Witness ==
    /\ buildCall.called
    /\ ~buildCall.tagsToExtract.isNull
    /\ buildCall.tagsToExtract.set = <<"Make", "FileSize">>
    /\ buildCall.excludeTags = <<"Make">>
    /\ "FileSize" \in DOMAIN buildCall.tags
    /\ buildCall.tags["FileSize"] = Str("2.3 MB")
    /\ buildCall.fileSize = 1
    /\ buildCall.result.data["FileSize"] = Num(1)

(***************************************************************************)
(* imageImporter on nothing (SpecImport)                                   *)
(***************************************************************************)
\* C30: imageImporter called with an empty array raises the "only works for
\* images under /src" error instead of returning an empty array; called with
\* undefined it returns null and does not raise.
C30_EmptyArrayThrows ==
    importCall.called =>
        /\ importCall.arg = Arr(<<>>) =>
              importCall.result.threw
        /\ importCall.arg = Undefined =>
              /\ ~importCall.result.threw
              /\ importCall.result.value = Null

\* C30 witness: the call with the empty array raised.
C30_Witness ==
    /\ importCall.called
    /\ importCall.arg.kind = "array"
    /\ Len(importCall.arg.elems) = 0
    /\ importCall.result.threw

====
